---- MODULE Spec2Model ----
(***************************************************************************)
(* Dataset Builder (Skizziik/json_creator): the versioned store with its   *)
(* commit log, the browser editor, and the session / broadcast server.     *)
(*                                                                         *)
(* Spec        the versioned store under arbitrary short request streams   *)
(* SpecLog     the versioned store under long request streams that fill    *)
(*             the commit log to its capacity                              *)
(* SpecEditor  the browser editor that keeps its projects in localStorage  *)
(* SpecEditorImport the same editor with the Import button                 *)
(* SpecGateway the server: REST routes over the store, the session         *)
(*             registry and the WebSocket broadcasts                       *)
(* SpecRegistry the session registry alone, with the periodic sweep        *)
(* SpecDiff    the history view: the diff of two snapshots                 *)
(* SpecReconnect the browser client that reconnects to the server          *)
(* SpecPresence the browser client that handles the MCP presence events    *)
(* SpecViewer  the browser client that loads the project on change events, *)
(*             saves a chunk and deletes one through the modal             *)
(***************************************************************************)
EXTENDS Integers, Sequences, FiniteSets, TLC

VARIABLES
  projects,     \* store: dataset name -> live dataset (domain = existing datasets)
  history,      \* store: dataset name -> commit log, oldest first
  nextUid,      \* next fresh stable identifier (categories and chunks)
  nextCommit,   \* next fresh commit id
  clock,        \* wall clock read by the last commit
  response,     \* outcome of the last request handled by the store
  count,        \* ghost: dataset name -> successful mutations since it was created
  pre           \* ghost: commit id -> the live dataset just before that mutation
                \*        and, for a rollback, the commit it rolled back to

VARIABLES
  data,         \* editor: Store.data, the projects kept in localStorage
  selected,     \* editor: App.selected, the chunk open in the form (or none)
  edUid,        \* editor: next value uid() returns
  imported,     \* editor: the array the last handler imported, if it imported one
  download      \* editor: the array the last handler had downloaded, if any

storeVars == <<projects, history, nextUid, nextCommit, clock, response, count, pre>>
VARIABLES
  sessions,     \* server: code -> [browsers, mcpClients, createdAt]
  conns,        \* server: the WebSocket objects the sessions hold
  nextWs,       \* server: identity of the next WebSocket object
  gwNow,        \* server: Date.now(), milliseconds since the server started
  sent,         \* the messages the last handler wrote, in order
  gwReq         \* the request or socket event the last handler served

VARIABLES
  dPrev,        \* history view: the previous snapshot given to _computeDiff, or none
  dCurr,        \* history view: the snapshot of the commit that is shown
  dDiffs        \* history view: the records _computeDiff returned, once it has run

VARIABLES
  client,       \* browser: Store.sessionCode and the state of Store._ws
  mcpConnected, \* browser: Store._mcpConnected
  inbox,        \* browser: the events written to Store._ws that onmessage has
                \*          not handled yet, oldest first
  current,      \* browser: Store.currentProjectName and Store.currentProject
  tasks,        \* browser: the handlers of change events that wait for the server
  modal,        \* browser: the Delete Chunk modal of App._deleteCurrentChunk
  saved,        \* ghost: the outcome of the save the last handler made, if it made one
  told          \* ghost: the last successful mutation wrote an event to Store._ws

editorVars == <<data, selected, edUid, imported, download>>
browserVars == <<client, mcpConnected, inbox, current, tasks, modal, saved, told>>
gatewayVars == <<sessions, conns, nextWs, gwNow, sent, gwReq>>
diffVars == <<dPrev, dCurr, dDiffs>>
vars == <<storeVars, editorVars, gatewayVars, diffVars, browserVars>>

(***************************************************************************)
(* Bounds of the model and constants of the program                        *)
(***************************************************************************)
MaxCommits == 50      \* capacity N of a dataset's commit log
MaxOps == 4           \* Spec: commits created in one behaviour
MaxLogOps == 54       \* SpecLog: commits created in one behaviour
MaxCats == 2          \* Spec: categories of a dataset
MaxChunks == 2        \* Spec: chunks of a dataset
MaxSameTick == 1      \* commits after the first that may read an unchanged clock
MaxLogRollbacks == 1  \* SpecLog: rollback commits in a log
MaxGwOps == 3         \* SpecGateway: commits of a run
MaxSockets == 2       \* SpecGateway, SpecRegistry: WebSocket connections of a run
MaxRegSockets == 3    \* SpecRegistry: sockets opened in one behaviour
MaxTicks == 2         \* SpecRegistry: sweep periods of a run
MaxEdProjects == 1    \* SpecEditor: projects in localStorage
MaxEdCats == 2        \* SpecEditor: categories of a project
MaxEdChunks == 3      \* SpecEditor: chunks of a project
MaxEdUid == 6         \* SpecEditor: values uid() returns in a run
MaxImports == 1       \* SpecEditorImport: projects made by importing a file
MaxViewerOps == 5     \* SpecViewer: commits of a run

ProjectNames == {"d"}
CatNames == {"Mobs", "Enemies"}
ChunkIds == {"", "creeper"}
Texts == {"hostile"}
Sources == {"browser"}

(***************************************************************************)
(* Dataset model                                                           *)
(***************************************************************************)
None == <<>>
Some(x) == <<x>>

EmptyMap == [x \in {} |-> x]

Remove(f, k) == [x \in DOMAIN f \ {k} |-> f[x]]

Put(f, k, v) == [x \in DOMAIN f \cup {k} |-> IF x = k THEN v ELSE f[x]]

NewDataset(p) == [name |-> p, categories |-> <<>>]

NewCategory(cid, n) == [id |-> cid, name |-> n, expanded |-> TRUE, chunks |-> <<>>]

NewChunk(uid, id, text) ==
  [_uid |-> uid, id |-> id, text |-> text,
   metadata |-> [page_title |-> "", source |-> "", license |-> ""],
   customFields |-> <<>>]

RECURSIVE SumChunks(_)
SumChunks(cats) ==
  IF cats = <<>> THEN 0 ELSE Len(Head(cats).chunks) + SumChunks(Tail(cats))

TotalChunks(ds) == SumChunks(ds.categories)

Stats(ds) == [categories |-> Len(ds.categories), chunks |-> TotalChunks(ds)]

CatIds(ds) == {ds.categories[i].id : i \in 1..Len(ds.categories)}

AllChunks(ds) ==
  UNION {{ds.categories[i].chunks[j] : j \in 1..Len(ds.categories[i].chunks)} :
         i \in 1..Len(ds.categories)}

CatIndex(ds, cid) == CHOOSE i \in 1..Len(ds.categories) : ds.categories[i].id = cid

ChunkIndex(cat, uid) == CHOOSE j \in 1..Len(cat.chunks) : cat.chunks[j]._uid = uid

HasChunk(ds, cid, uid) ==
  /\ cid \in CatIds(ds)
  /\ \E j \in 1..Len(ds.categories[CatIndex(ds, cid)].chunks) :
       ds.categories[CatIndex(ds, cid)].chunks[j]._uid = uid

\* faulty variant: only the chunks of the first category are searched
IsChunkIdTakenFirstCategory(ds, id, excludeUid) ==
  /\ id # ""
  /\ ds.categories # <<>>
  /\ \E j \in 1..Len(ds.categories[1].chunks) :
       /\ ds.categories[1].chunks[j]._uid # excludeUid
       /\ ds.categories[1].chunks[j].id = id

\* "conflict" when the uniqueness invariant of the user-facing id would be violated
IsChunkIdTaken(ds, id, excludeUid) ==
  /\ id # ""
  /\ \E ch \in AllChunks(ds) : ch._uid # excludeUid /\ ch.id = id

CopyId(id) == IF id = "" THEN "" ELSE id \o "_copy"

RemoveAt(s, i) == SubSeq(s, 1, i - 1) \o SubSeq(s, i + 1, Len(s))

(***************************************************************************)
(* Commit log                                                              *)
(***************************************************************************)
\* faulty variant: the commit keeps a reference to the live dataset object
ShallowReference(ds) == [aliased |-> TRUE, value |-> ds]

\* a snapshot is a structural copy of the dataset, never a reference to it
DeepClone(ds) == [aliased |-> FALSE, value |-> ds]

\* the dataset a stored snapshot denotes when it is read for dataset p
Deref(p, snap) == IF snap.aliased THEN projects[p] ELSE snap.value

\* the same read made after the step that is being taken
DerefNext(p, snap) == IF snap.aliased THEN projects'[p] ELSE snap.value

NewCommit(cid, ts, src, act, ds) ==
  [id |-> cid, timestamp |-> ts, source |-> src, action |-> act,
   stats |-> Stats(ds), snapshot |-> DeepClone(ds)]

\* faulty variant: the capacity test is off by one
AppendCommitLate(log, c) ==
  IF Len(log) > MaxCommits THEN Append(Tail(log), c) ELSE Append(log, c)

\* append, evicting the oldest entry first if the log is at capacity
AppendCommit(log, c) ==
  IF Len(log) >= MaxCommits THEN Append(Tail(log), c) ELSE Append(log, c)

LogOf(p) == IF p \in DOMAIN history THEN history[p] ELSE <<>>

CommitIds(p) == {LogOf(p)[i].id : i \in 1..Len(LogOf(p))}

CommitIndex(p, cid) == CHOOSE i \in 1..Len(LogOf(p)) : LogOf(p)[i].id = cid

\* list: commit metadata without snapshots, chronological
List(p) ==
  [i \in 1..Len(LogOf(p)) |->
     [id |-> LogOf(p)[i].id, timestamp |-> LogOf(p)[i].timestamp,
      source |-> LogOf(p)[i].source, action |-> LogOf(p)[i].action,
      stats |-> LogOf(p)[i].stats]]

\* faulty variant: the log is taken to be newest first
GetNewestFirst(p, cid) ==
  LET i == CommitIndex(p, cid) IN
  [commit |-> LogOf(p)[i],
   snapshot |-> Deref(p, LogOf(p)[i].snapshot),
   prevSnapshot |-> IF i = Len(LogOf(p)) THEN None
                    ELSE Some(Deref(p, LogOf(p)[i + 1].snapshot))]

\* get: the commit, its snapshot and the snapshot of the preceding commit
Get(p, cid) ==
  LET i == CommitIndex(p, cid) IN
  [commit |-> LogOf(p)[i],
   snapshot |-> Deref(p, LogOf(p)[i].snapshot),
   prevSnapshot |-> IF i = 1 THEN None ELSE Some(Deref(p, LogOf(p)[i - 1].snapshot))]

(***************************************************************************)
(* Versioned store: validate, apply, commit                                *)
(***************************************************************************)
Fail(op, id, err) ==
  /\ response' = [op |-> op, id |-> id, status |-> err]
  /\ UNCHANGED <<projects, history, nextUid, nextCommit, clock, count, pre>>

\* the clock read by a commit: later than the previous commit's, or the same
\* instant (a burst of MaxSameTick commits right after the first one)
Tick ==
  \/ clock' = clock + 1
  \/ /\ 1 < nextCommit
     /\ nextCommit <= MaxSameTick + 1
     /\ clock' = clock

\* steps (2) and (3) of a mutation: the live dataset becomes ds and one commit
\* describing the change is appended
Succeed(p, src, op, id, ds, fresh, target) ==
  /\ Tick
  /\ projects' = Put(projects, p, ds)
  /\ history' = Put(history, p,
                    AppendCommit(LogOf(p), NewCommit(nextCommit, clock', src, op, ds)))
  /\ nextCommit' = nextCommit + 1
  /\ nextUid' = nextUid + fresh
  /\ count' = Put(count, p, IF p \in DOMAIN projects THEN count[p] + 1 ELSE 1)
  /\ pre' = Put(pre, nextCommit,
                [before |-> IF p \in DOMAIN projects THEN Some(projects[p]) ELSE None,
                 target |-> target])
  /\ response' = [op |-> op, id |-> id, status |-> "ok"]

SetCat(ds, cid, cat) ==
  [ds EXCEPT !.categories = [@ EXCEPT ![CatIndex(ds, cid)] = cat]]

CatOf(ds, cid) == ds.categories[CatIndex(ds, cid)]

CreateProject(p, src) ==
  IF p \in DOMAIN projects THEN Fail("createProject", "", "Conflict")
  ELSE Succeed(p, src, "createProject", "", NewDataset(p), 0, 0)

\* faulty variant: the commit log outlives its dataset
DeleteProjectKeepingLog(p) ==
  IF p \notin DOMAIN projects THEN Fail("deleteProject", "", "NotFound")
  ELSE /\ projects' = Remove(projects, p)
       /\ count' = Remove(count, p)
       /\ response' = [op |-> "deleteProject", id |-> "", status |-> "ok"]
       /\ UNCHANGED <<history, nextUid, nextCommit, clock, pre>>

DeleteProject(p) ==
  IF p \notin DOMAIN projects THEN Fail("deleteProject", "", "NotFound")
  ELSE /\ projects' = Remove(projects, p)
       /\ history' = Remove(history, p)
       /\ count' = Remove(count, p)
       /\ response' = [op |-> "deleteProject", id |-> "", status |-> "ok"]
       /\ UNCHANGED <<nextUid, nextCommit, clock, pre>>

CreateCategory(p, src, n) ==
  IF p \notin DOMAIN projects THEN Fail("createCategory", "", "NotFound")
  ELSE IF n = "" THEN Fail("createCategory", "", "InvalidInput")
  ELSE Succeed(p, src, "createCategory", "",
               [projects[p] EXCEPT !.categories = Append(@, NewCategory(nextUid, n))], 1, 0)

RenameCategory(p, src, cid, n) ==
  IF p \notin DOMAIN projects \/ cid \notin CatIds(projects[p])
  THEN Fail("renameCategory", "", "NotFound")
  ELSE IF n = "" THEN Fail("renameCategory", "", "InvalidInput")
  ELSE Succeed(p, src, "renameCategory", "",
               SetCat(projects[p], cid, [CatOf(projects[p], cid) EXCEPT !.name = n]), 0, 0)

DeleteCategory(p, src, cid) ==
  IF p \notin DOMAIN projects \/ cid \notin CatIds(projects[p])
  THEN Fail("deleteCategory", "", "NotFound")
  ELSE Succeed(p, src, "deleteCategory", "",
               [projects[p] EXCEPT
                  !.categories = RemoveAt(@, CatIndex(projects[p], cid))], 0, 0)

\* faulty variant: the expansion flag is flipped in place and no commit is made
ToggleCategoryUntracked(p, src, cid) ==
  IF p \notin DOMAIN projects \/ cid \notin CatIds(projects[p])
  THEN Fail("toggleCategory", "", "NotFound")
  ELSE /\ projects' = Put(projects, p,
                          SetCat(projects[p], cid,
                                 [CatOf(projects[p], cid) EXCEPT !.expanded = ~@]))
       /\ response' = [op |-> "toggleCategory", id |-> "", status |-> "ok"]
       /\ UNCHANGED <<history, nextUid, nextCommit, clock, count, pre>>

ToggleCategory(p, src, cid) ==
  IF p \notin DOMAIN projects \/ cid \notin CatIds(projects[p])
  THEN Fail("toggleCategory", "", "NotFound")
  ELSE Succeed(p, src, "toggleCategory", "",
               SetCat(projects[p], cid,
                      [CatOf(projects[p], cid) EXCEPT !.expanded = ~@]), 0, 0)

AddChunk(p, src, cid, id, text) ==
  IF p \notin DOMAIN projects \/ cid \notin CatIds(projects[p])
  THEN Fail("addChunk", id, "NotFound")
  ELSE IF IsChunkIdTaken(projects[p], id, 0) THEN Fail("addChunk", id, "Conflict")
  ELSE Succeed(p, src, "addChunk", id,
               SetCat(projects[p], cid,
                      [CatOf(projects[p], cid) EXCEPT
                         !.chunks = Append(@, NewChunk(nextUid, id, text))]), 1, 0)

RECURSIVE NewChunks(_, _)
NewChunks(uid, recs) ==
  IF recs = <<>> THEN <<>>
  ELSE <<NewChunk(uid, recs[1].id, recs[1].text)>> \o NewChunks(uid + 1, Tail(recs))

\* a batch is refused when one of its non-empty ids is taken or occurs twice
BatchConflict(ds, recs) ==
  \/ \E i \in 1..Len(recs) : IsChunkIdTaken(ds, recs[i].id, 0)
  \/ \E i, j \in 1..Len(recs) : i # j /\ recs[i].id # "" /\ recs[i].id = recs[j].id

BulkAddChunks(p, src, cid, recs) ==
  IF p \notin DOMAIN projects \/ cid \notin CatIds(projects[p])
  THEN Fail("bulkAddChunks", "", "NotFound")
  ELSE IF BatchConflict(projects[p], recs) THEN Fail("bulkAddChunks", "", "Conflict")
  ELSE Succeed(p, src, "bulkAddChunks", "",
               SetCat(projects[p], cid,
                      [CatOf(projects[p], cid) EXCEPT
                         !.chunks = @ \o NewChunks(nextUid, recs)]), Len(recs), 0)

\* import creates the named category or appends to it; ids are not checked
ImportJSON(p, src, payload, n) ==
  IF p \notin DOMAIN projects THEN Fail("importJSON", "", "NotFound")
  ELSE IF ~payload.isArray THEN Fail("importJSON", "", "InvalidInput")
  ELSE LET cats == projects[p].categories
           hit == {i \in 1..Len(cats) : cats[i].name = n} IN
       IF hit # {}
       THEN LET i == CHOOSE k \in hit : \A m \in hit : k <= m IN
            Succeed(p, src, "importJSON", "",
                    [projects[p] EXCEPT
                       !.categories[i].chunks = @ \o NewChunks(nextUid, payload.records)],
                    Len(payload.records), 0)
       ELSE Succeed(p, src, "importJSON", "",
                    [projects[p] EXCEPT
                       !.categories =
                          Append(@, [NewCategory(nextUid, n) EXCEPT
                                       !.chunks = NewChunks(nextUid + 1, payload.records)])],
                    Len(payload.records) + 1, 0)

AddBlankChunk(p, src, cid) ==
  IF p \notin DOMAIN projects \/ cid \notin CatIds(projects[p])
  THEN Fail("addBlankChunk", "", "NotFound")
  ELSE Succeed(p, src, "addBlankChunk", "",
               SetCat(projects[p], cid,
                      [CatOf(projects[p], cid) EXCEPT
                         !.chunks = Append(@, NewChunk(nextUid, "", ""))]), 1, 0)

UpdateChunk(p, src, cid, uid, id, text) ==
  IF p \notin DOMAIN projects \/ ~HasChunk(projects[p], cid, uid)
  THEN Fail("updateChunk", id, "NotFound")
  ELSE IF IsChunkIdTaken(projects[p], id, uid) THEN Fail("updateChunk", id, "Conflict")
  ELSE LET cat == CatOf(projects[p], cid)
           j == ChunkIndex(cat, uid) IN
       Succeed(p, src, "updateChunk", id,
               SetCat(projects[p], cid,
                      [cat EXCEPT !.chunks[j].id = id, !.chunks[j].text = text]), 0, 0)

DeleteChunk(p, src, cid, uid) ==
  IF p \notin DOMAIN projects \/ ~HasChunk(projects[p], cid, uid)
  THEN Fail("deleteChunk", "", "NotFound")
  ELSE LET cat == CatOf(projects[p], cid) IN
       Succeed(p, src, "deleteChunk", "",
               SetCat(projects[p], cid,
                      [cat EXCEPT !.chunks = RemoveAt(@, ChunkIndex(cat, uid))]), 0, 0)

DuplicateChunk(p, src, cid, uid) ==
  IF p \notin DOMAIN projects \/ ~HasChunk(projects[p], cid, uid)
  THEN Fail("duplicateChunk", "", "NotFound")
  ELSE LET cat == CatOf(projects[p], cid)
           orig == cat.chunks[ChunkIndex(cat, uid)] IN
       IF IsChunkIdTaken(projects[p], CopyId(orig.id), 0)
       THEN Fail("duplicateChunk", CopyId(orig.id), "Conflict")
       ELSE Succeed(p, src, "duplicateChunk", CopyId(orig.id),
                    SetCat(projects[p], cid,
                           [cat EXCEPT !.chunks =
                              Append(@, [orig EXCEPT !._uid = nextUid,
                                                     !.id = CopyId(orig.id)])]), 1, 0)

MoveChunk(p, src, cid, uid, target) ==
  IF \/ p \notin DOMAIN projects
     \/ ~HasChunk(projects[p], cid, uid)
     \/ target \notin CatIds(projects[p])
  THEN Fail("moveChunk", "", "NotFound")
  ELSE LET cat == CatOf(projects[p], cid)
           ch == cat.chunks[ChunkIndex(cat, uid)]
           removed == SetCat(projects[p], cid,
                             [cat EXCEPT !.chunks = RemoveAt(@, ChunkIndex(cat, uid))]) IN
       Succeed(p, src, "moveChunk", "",
               SetCat(removed, target,
                      [CatOf(removed, target) EXCEPT !.chunks = Append(@, ch)]), 0, 0)

\* faulty variant: the history after the target commit is discarded
RollbackTruncating(p, src, commitId) ==
  IF p \notin DOMAIN projects \/ commitId \notin CommitIds(p)
  THEN Fail("rollback", "", "NotFound")
  ELSE LET i == CommitIndex(p, commitId)
           ds == Deref(p, LogOf(p)[i].snapshot) IN
       /\ Tick
       /\ projects' = Put(projects, p, ds)
       /\ history' = Put(history, p,
                         Append(SubSeq(LogOf(p), 1, i),
                                NewCommit(nextCommit, clock', src, "rollback", ds)))
       /\ nextCommit' = nextCommit + 1
       /\ count' = Put(count, p, count[p] + 1)
       /\ pre' = Put(pre, nextCommit,
                     [before |-> Some(projects[p]), target |-> commitId])
       /\ response' = [op |-> "rollback", id |-> "", status |-> "ok"]
       /\ UNCHANGED nextUid

\* faulty variant: the snapshot of the commit before the target is restored
RollbackOffByOne(p, src, commitId) ==
  IF p \notin DOMAIN projects \/ commitId \notin CommitIds(p)
  THEN Fail("rollback", "", "NotFound")
  ELSE LET i == CommitIndex(p, commitId) IN
       Succeed(p, src, "rollback", "",
               Deref(p, LogOf(p)[IF i > 1 THEN i - 1 ELSE 1].snapshot), 0, commitId)

\* rollback: restore the commit's snapshot and commit the result as "rollback"
Rollback(p, src, commitId) ==
  IF p \notin DOMAIN projects \/ commitId \notin CommitIds(p)
  THEN Fail("rollback", "", "NotFound")
  ELSE Succeed(p, src, "rollback", "",
               Deref(p, LogOf(p)[CommitIndex(p, commitId)].snapshot), 0, commitId)

(***************************************************************************)
(* Browser editor (localStorage): Store                                    *)
(***************************************************************************)
DefaultLicense == "CC BY-NC-SA 3.0"

NoSelection == None

\* String.prototype.trim on the names the model types in
Trim(str) ==
  CASE str = " Mobs " -> "Mobs"
    [] str = "  " -> ""
    [] str = " health " -> "health"
    [] str = " source" -> "source"
    [] OTHER -> str

\* a JavaScript value of a metadata entry: its type and its String() image
JsString(s) == [type |-> "string", repr |-> s]

JsNumber(digits) == [type |-> "number", repr |-> digits]

JsNull == [type |-> "null", repr |-> "null"]

JsUndefined == [type |-> "undefined", repr |-> "undefined"]

Falsy(v) ==
  \/ v.type \in {"null", "undefined"}
  \/ v.type = "string" /\ v.repr = ""
  \/ v.type = "number" /\ v.repr = "0"

\* v || ''
OrEmptyString(v) == IF Falsy(v) THEN JsString("") ELSE v

\* String(v ?? '')
ToStringOrEmpty(v) == IF v.type \in {"null", "undefined"} THEN JsString("") ELSE JsString(v.repr)

\* an object is the list of its entries in insertion order; obj[k]
Member(obj, k) ==
  IF \E i \in 1..Len(obj) : obj[i].key = k
  THEN obj[CHOOSE i \in 1..Len(obj) : obj[i].key = k].value
  ELSE JsUndefined

\* obj[k] = v
SetMember(obj, k, v) ==
  IF \E i \in 1..Len(obj) : obj[i].key = k
  THEN [i \in 1..Len(obj) |-> IF obj[i].key = k THEN [key |-> k, value |-> v] ELSE obj[i]]
  ELSE Append(obj, [key |-> k, value |-> v])

EdCurrentIndex ==
  IF \E i \in 1..Len(data.projects) : data.projects[i].id = data.currentProjectId
  THEN CHOOSE i \in 1..Len(data.projects) : data.projects[i].id = data.currentProjectId
  ELSE 0

\* Store.getCurrentProject; guarded by EdCurrentIndex # 0 (null otherwise)
EdCurrentProject == data.projects[EdCurrentIndex]

EdSetProject(proj) == [data EXCEPT !.projects[EdCurrentIndex] = proj]

EdCategories == IF EdCurrentIndex = 0 THEN <<>> ELSE EdCurrentProject.categories

EdHasCat(catId) == \E i \in 1..Len(EdCategories) : EdCategories[i].id = catId

EdCatIndex(catId) == CHOOSE i \in 1..Len(EdCategories) : EdCategories[i].id = catId

EdGetChunk(catId, chunkUid) ==
  IF EdCurrentIndex = 0 \/ ~EdHasCat(catId) THEN None
  ELSE LET chunks == EdCategories[EdCatIndex(catId)].chunks IN
       IF \E j \in 1..Len(chunks) : chunks[j]._uid = chunkUid
       THEN Some(chunks[CHOOSE j \in 1..Len(chunks) : chunks[j]._uid = chunkUid])
       ELSE None

EdCreateProject(d, uid, name) ==
  [projects |-> Append(d.projects, [id |-> uid, name |-> Trim(name), categories |-> <<>>]),
   currentProjectId |-> uid]

EdAddCategory(uid, name) ==
  EdSetProject([EdCurrentProject EXCEPT
                  !.categories = Append(@, NewCategory(uid, Trim(name)))])

EdDeleteCategory(catId) ==
  EdSetProject([EdCurrentProject EXCEPT
                  !.categories = SelectSeq(@, LAMBDA c : c.id # catId)])

EdToggleCategory(d, catId) ==
  LET i == CHOOSE k \in 1..Len(d.projects) : d.projects[k].id = d.currentProjectId
      cats == d.projects[i].categories IN
  IF \E k \in 1..Len(cats) : cats[k].id = catId
  THEN [d EXCEPT !.projects[i].categories[CHOOSE k \in 1..Len(cats) : cats[k].id = catId]
                     .expanded = ~@]
  ELSE d

EdBlankChunk(uid) ==
  [_uid |-> uid, id |-> "", text |-> "",
   metadata |-> [page_title |-> JsString(""), source |-> JsString(""),
                 license |-> JsString(DefaultLicense)],
   customFields |-> <<>>]

EdAddChunk(catId, uid) ==
  EdSetProject([EdCurrentProject EXCEPT
                  !.categories[EdCatIndex(catId)].chunks = Append(@, EdBlankChunk(uid))])

\* { ...chunk, ...data }: the form's fields replace the chunk's, _uid stays
EdUpdateChunk(catId, chunkUid, form) ==
  IF EdCurrentIndex = 0 \/ ~EdHasCat(catId) \/ EdGetChunk(catId, chunkUid) = None
  THEN data
  ELSE LET chunks == EdCategories[EdCatIndex(catId)].chunks
           idx == CHOOSE j \in 1..Len(chunks) : chunks[j]._uid = chunkUid IN
       EdSetProject([EdCurrentProject EXCEPT
                       !.categories[EdCatIndex(catId)].chunks[idx] =
                          [_uid |-> chunks[idx]._uid, id |-> form.id, text |-> form.text,
                           metadata |-> form.metadata,
                           customFields |-> form.customFields]])

EdDeleteChunk(catId, chunkUid) ==
  IF EdCurrentIndex = 0 \/ ~EdHasCat(catId) THEN data
  ELSE EdSetProject([EdCurrentProject EXCEPT
                       !.categories[EdCatIndex(catId)].chunks =
                          SelectSeq(@, LAMBDA ch : ch._uid # chunkUid)])

\* faulty variant: the copy keeps the _uid of the original
EdDuplicateChunkKeepingUid(catId, chunkUid, uid) ==
  LET orig == EdGetChunk(catId, chunkUid)[1] IN
  EdSetProject([EdCurrentProject EXCEPT
                  !.categories[EdCatIndex(catId)].chunks =
                     Append(@, [orig EXCEPT
                                  !.id = IF orig.id # "" THEN orig.id \o "_copy" ELSE ""])])

\* the copy gets a fresh _uid and the original's id with "_copy" appended
EdDuplicateChunk(catId, chunkUid, uid) ==
  LET orig == EdGetChunk(catId, chunkUid)[1] IN
  EdSetProject([EdCurrentProject EXCEPT
                  !.categories[EdCatIndex(catId)].chunks =
                     Append(@, [orig EXCEPT
                                  !._uid = uid,
                                  !.id = IF orig.id # "" THEN orig.id \o "_copy" ELSE ""])])

EdAllChunks ==
  UNION {{EdCategories[i].chunks[j] : j \in 1..Len(EdCategories[i].chunks)} :
         i \in 1..Len(EdCategories)}

EdIsChunkIdTaken(id, excludeUid) ==
  /\ id # ""
  /\ EdCurrentIndex # 0
  /\ \E ch \in EdAllChunks : ch._uid # excludeUid /\ ch.id = id

STANDARD_META == {"page_title", "source", "license"}

\* faulty variant: only the standard keys are read
NoCustomFields(meta) == <<>>

\* every key that is not a standard one becomes a custom field, value as a string
ImportedCustomFields(meta) ==
  LET custom == SelectSeq(meta, LAMBDA e : e.key \notin STANDARD_META) IN
  [i \in 1..Len(custom) |-> [key |-> custom[i].key, value |-> ToStringOrEmpty(custom[i].value)]]

\* entry.metadata || {} is the entry's list; id and text are strings, s || '' is s
ImportedChunk(uid, entry) ==
  [_uid |-> uid, id |-> entry.id, text |-> entry.text,
   metadata |-> [page_title |-> OrEmptyString(Member(entry.metadata, "page_title")),
                 source |-> OrEmptyString(Member(entry.metadata, "source")),
                 license |-> OrEmptyString(Member(entry.metadata, "license"))],
   customFields |-> ImportedCustomFields(entry.metadata)]

\* faulty variant: uid() is called once for all the chunks
EdImportProjectWithOneUid(d, uid, name, jsonArray) ==
  [projects |->
     Append(d.projects,
            [id |-> uid, name |-> Trim(name),
             categories |->
               <<[NewCategory(uid + 1, "Imported") EXCEPT
                    !.chunks = [i \in 1..Len(jsonArray) |->
                                  ImportedChunk(uid + 2, jsonArray[i])]]>>]),
   currentProjectId |-> uid]

\* a new project with the one category "Imported"; it becomes the current project
EdImportProject(d, uid, name, jsonArray) ==
  [projects |->
     Append(d.projects,
            [id |-> uid, name |-> Trim(name),
             categories |->
               <<[NewCategory(uid + 1, "Imported") EXCEPT
                    !.chunks = [i \in 1..Len(jsonArray) |->
                                  ImportedChunk(uid + 1 + i, jsonArray[i])]]>>]),
   currentProjectId |-> uid]

\* the custom fields are written over a copy of the fixed metadata, in order
RECURSIVE WithCustomFields(_, _)
WithCustomFields(metadata, customFields) ==
  IF customFields = <<>> THEN metadata
  ELSE LET cf == Head(customFields) IN
       WithCustomFields(IF cf.key # "" /\ Trim(cf.key) # ""
                        THEN SetMember(metadata, Trim(cf.key), OrEmptyString(cf.value))
                        ELSE metadata,
                        Tail(customFields))

ExportedEntry(chunk) ==
  [id |-> chunk.id, text |-> chunk.text,
   metadata |-> WithCustomFields(<<[key |-> "page_title", value |-> chunk.metadata.page_title],
                                   [key |-> "source", value |-> chunk.metadata.source],
                                   [key |-> "license", value |-> chunk.metadata.license]>>,
                                 chunk.customFields)]

RECURSIVE ExportedEntries(_)
ExportedEntries(categories) ==
  IF categories = <<>> THEN <<>>
  ELSE [j \in 1..Len(Head(categories).chunks) |-> ExportedEntry(Head(categories).chunks[j])]
       \o ExportedEntries(Tail(categories))

\* Store.exportJSON on the stored data d: null without a current project
EdExportJSON(d) ==
  IF \E i \in 1..Len(d.projects) : d.projects[i].id = d.currentProjectId
  THEN Some(ExportedEntries(
              d.projects[CHOOSE i \in 1..Len(d.projects) :
                           d.projects[i].id = d.currentProjectId].categories))
  ELSE None

(***************************************************************************)
(* Browser editor: App (each handler with the render its store save runs)  *)
(***************************************************************************)
\* _renderContent drops a selection whose chunk is gone
Rendered(d, sel) ==
  IF sel = NoSelection THEN NoSelection
  ELSE LET hit == {i \in 1..Len(d.projects) : d.projects[i].id = d.currentProjectId} IN
       IF \E i \in hit :
            \E k \in 1..Len(d.projects[i].categories) :
              /\ d.projects[i].categories[k].id = sel[1].categoryId
              /\ \E j \in 1..Len(d.projects[i].categories[k].chunks) :
                   d.projects[i].categories[k].chunks[j]._uid = sel[1].chunkUid
       THEN sel ELSE NoSelection

\* the handler read no file and wrote none
NoFile == imported' = None /\ download' = None

ShowNewProjectModal(name) ==
  /\ Trim(name) # ""
  /\ Len(data.projects) < MaxEdProjects
  /\ data' = EdCreateProject(data, edUid, name)
  /\ selected' = NoSelection
  /\ edUid' = edUid + 1
  /\ NoFile

ConfirmCategory(name) ==
  /\ Trim(name) # ""
  /\ EdCurrentIndex # 0
  /\ Len(EdCategories) < MaxEdCats
  /\ data' = EdAddCategory(edUid, name)
  /\ selected' = Rendered(data', selected)
  /\ edUid' = edUid + 1
  /\ NoFile

HandleToggle(catId) ==
  /\ EdCurrentIndex # 0
  /\ EdHasCat(catId)
  /\ data' = EdToggleCategory(data, catId)
  /\ selected' = Rendered(data', selected)
  /\ UNCHANGED edUid
  /\ NoFile

HandleAddChunk(catId) ==
  /\ EdCurrentIndex # 0
  /\ EdHasCat(catId)
  /\ Cardinality(EdAllChunks) < MaxEdChunks
  /\ LET added == EdAddChunk(catId, edUid) IN
       data' = IF EdCategories[EdCatIndex(catId)].expanded
               THEN added ELSE EdToggleCategory(added, catId)
  /\ selected' = Some([categoryId |-> catId, chunkUid |-> edUid])
  /\ edUid' = edUid + 1
  /\ NoFile

HandleDeleteCategory(catId) ==
  /\ EdHasCat(catId)
  /\ data' = EdDeleteCategory(catId)
  /\ selected' = IF selected # NoSelection /\ selected[1].categoryId = catId
                 THEN NoSelection ELSE Rendered(data', selected)
  /\ UNCHANGED edUid
  /\ NoFile

HandleSelectChunk(catId, chunkUid) ==
  /\ EdGetChunk(catId, chunkUid) # None
  /\ selected' = Some([categoryId |-> catId, chunkUid |-> chunkUid])
  /\ UNCHANGED <<data, edUid>>
  /\ NoFile

SaveCurrentChunk(form) ==
  /\ selected # NoSelection
  /\ IF form.id # "" /\ EdIsChunkIdTaken(form.id, selected[1].chunkUid)
     THEN UNCHANGED <<data, selected>>
     ELSE /\ data' = EdUpdateChunk(selected[1].categoryId, selected[1].chunkUid, form)
          /\ selected' = Rendered(data', selected)
  /\ UNCHANGED edUid
  /\ NoFile

SaveCurrentChunkSilent(form) ==
  IF selected = NoSelection THEN data
  ELSE EdUpdateChunk(selected[1].categoryId, selected[1].chunkUid, form)

\* _handleExport: the open chunk is saved silently, then the project exported;
\* nothing is downloaded when there is no chunk
HandleExport(form) ==
  /\ EdCurrentIndex # 0
  /\ data' = SaveCurrentChunkSilent(form)
  /\ selected' = Rendered(data', selected)
  /\ download' = IF EdExportJSON(data') = None \/ EdExportJSON(data')[1] = <<>>
                 THEN None ELSE EdExportJSON(data')
  /\ imported' = None
  /\ UNCHANGED edUid

\* file.name.replace(/\.json$/i, '')
WithoutJsonSuffix(fileName) ==
  CASE fileName = "mobs.json" -> "mobs"
    [] OTHER -> fileName

\* _handleImport, reader.onload: only a non-empty array is imported
HandleImport(file) ==
  /\ Len(data.projects) < MaxEdProjects + MaxImports
  /\ IF ~file.parsed.isArray \/ Len(file.parsed.records) = 0
     THEN imported' = None /\ UNCHANGED <<data, selected, edUid>>
     ELSE /\ data' = EdImportProject(data, edUid, WithoutJsonSuffix(file.name),
                                     file.parsed.records)
          /\ selected' = NoSelection
          /\ edUid' = edUid + 2 + Len(file.parsed.records)
          /\ imported' = Some(file.parsed.records)
  /\ download' = None

DuplicateCurrentChunk ==
  /\ selected # NoSelection
  /\ EdGetChunk(selected[1].categoryId, selected[1].chunkUid) # None
  /\ Cardinality(EdAllChunks) < MaxEdChunks
  /\ data' = EdDuplicateChunk(selected[1].categoryId, selected[1].chunkUid, edUid)
  /\ selected' = Some([categoryId |-> selected[1].categoryId, chunkUid |-> edUid])
  /\ edUid' = edUid + 1
  /\ NoFile

DeleteCurrentChunk ==
  /\ selected # NoSelection
  /\ data' = EdDeleteChunk(selected[1].categoryId, selected[1].chunkUid)
  /\ selected' = NoSelection
  /\ UNCHANGED edUid
  /\ NoFile

HandleDeleteChunkFromTree(catId, chunkUid) ==
  /\ EdGetChunk(catId, chunkUid) # None
  /\ data' = EdDeleteChunk(catId, chunkUid)
  /\ selected' = IF selected # NoSelection /\ selected[1].chunkUid = chunkUid
                 THEN NoSelection ELSE Rendered(data', selected)
  /\ UNCHANGED edUid
  /\ NoFile

IdleEditor ==
  /\ data = [projects |-> <<>>, currentProjectId |-> 0]
  /\ selected = NoSelection
  /\ edUid = 1
  /\ imported = None
  /\ download = None

NameInputs == {" Mobs ", "  "}

FormInputs ==
  [id : ChunkIds \cup {"creeper_copy"}, text : {"hostile"},
   metadata : {[page_title |-> JsString("Creeper"), source |-> JsString(""),
                license |-> JsString(DefaultLicense)]},
   customFields : {<<>>}]

\* metadata objects of the records a file holds: plain strings, a number, a
\* blank key, a padded key, nulls, none, a padded standard key
ImportMetadata ==
  {<<[key |-> "page_title", value |-> JsString("Creeper")],
     [key |-> "license", value |-> JsString("MIT")],
     [key |-> "health", value |-> JsString("20")]>>,
   <<[key |-> "health", value |-> JsNumber("20")]>>,
   <<[key |-> "  ", value |-> JsString("x")]>>,
   <<[key |-> " health ", value |-> JsString("20")]>>,
   <<[key |-> "license", value |-> JsNull], [key |-> "behavior", value |-> JsNull]>>,
   <<>>,
   <<[key |-> "source", value |-> JsString("Minecraft Wiki")],
     [key |-> " source", value |-> JsString("wiki")]>>}

ImportRecords == [id : {"creeper"}, text : {"hostile"}, metadata : ImportMetadata]

SecondRecords ==
  [id : {"creeper", "zombie"}, text : {""},
   metadata : {<<[key |-> "health", value |-> JsString("20")]>>}]

\* what JSON.parse returned: something that is no array, or an array of records
ImportFiles ==
  [name : {"mobs.json"},
   parsed : {[isArray |-> FALSE, records |-> <<>>], [isArray |-> TRUE, records |-> <<>>]}
            \cup {[isArray |-> TRUE, records |-> <<r>>] : r \in ImportRecords}
            \cup {[isArray |-> TRUE, records |-> <<r, s>>] :
                    r \in ImportRecords, s \in SecondRecords}]


EdCatIds == {EdCategories[i].id : i \in 1..Len(EdCategories)}

EdChunkUids == {ch._uid : ch \in EdAllChunks}

(***************************************************************************)
(* Server: session registry and broadcasts                                 *)
(***************************************************************************)
OPEN == 1       \* WebSocket.readyState of a connection that can be written
CLOSING == 2

SweepEveryMs == 30 * 60 * 1000

StaleMs == 30 * 60 * 1000

\* const chars = 'ABCDEFGHJKLMNPQRSTUVWXYZ23456789'
Chars == <<"A", "B", "C", "D", "E", "F", "G", "H", "J", "K", "L", "M", "N", "P", "Q", "R",
           "S", "T", "U", "V", "W", "X", "Y", "Z", "2", "3", "4", "5", "6", "7", "8", "9">>

CodeLength == 6

\* the values of Math.floor(Math.random() * chars.length) in the six rounds of
\* one call of generateCode: the draws that give ABC234 and XYZ789
RandomDraws == {<<0, 1, 2, 24, 25, 26>>, <<21, 22, 23, 29, 30, 31>>}

\* the loop of generateCode: code += chars[draw]
CodeOf(draw) == [i \in 1..CodeLength |-> Chars[draw[i] + 1]]

Codes == {CodeOf(draw) : draw \in RandomDraws}

\* a session parameter that is absent or empty
NoCode == <<>>

TypeParams == {"", "browser", "mcp"}

RawMessages == {[parses |-> TRUE, event |-> "data:changed"],
                [parses |-> TRUE, event |-> "ping"],
                [parses |-> FALSE, event |-> ""]}

Msg(ws, event) == [to |-> ws, event |-> event]

\* faulty variant: the loop ends at the first member that cannot be written
SendEachUntilFailure(members, event) ==
  LET bad == {i \in 1..Len(members) : conns[members[i]].readyState # OPEN}
      n == IF bad = {} THEN Len(members)
           ELSE (CHOOSE i \in bad : \A j \in bad : i <= j) - 1 IN
  [i \in 1..n |-> Msg(members[i], event)]

\* the loop of a broadcast: one send to each member whose readyState is OPEN
RECURSIVE SendEach(_, _)
SendEach(members, event) ==
  IF members = <<>> THEN <<>>
  ELSE (IF conns[members[1]].readyState = OPEN
        THEN <<Msg(members[1], event)>> ELSE <<>>)
       \o SendEach(Tail(members), event)

\* faulty variant: the code drawn is returned without looking at the registry
GenerateCodeWithoutRetry == Codes

\* the codes generateCode can return: a code that is drawn while a session has
\* it is drawn again, so the result is a drawn code that no session has
GenerateCode == {code \in Codes : code \notin DOMAIN sessions}

Broadcast(sessionCode, event, excludeWs) ==
  IF sessionCode \notin DOMAIN sessions THEN <<>>
  ELSE SendEach(SelectSeq(sessions[sessionCode].browsers \o sessions[sessionCode].mcpClients,
                          LAMBDA ws : ws # excludeWs), event)

BroadcastToBothRoles(sessionCode, event) == Broadcast(sessionCode, event, 0)

BroadcastToBrowsers(sessionCode, event) ==
  IF sessionCode \notin DOMAIN sessions THEN <<>>
  ELSE SendEach(sessions[sessionCode].browsers, event)

Served(route, session, status) ==
  [route |-> route, session |-> session, origin |-> 0, status |-> status]

GetSession ==
  \E code \in GenerateCode :
    /\ sessions' = Put(sessions, code,
                       [browsers |-> <<>>, mcpClients |-> <<>>, createdAt |-> gwNow])
    /\ sent' = <<>>
    /\ gwReq' = Served("session", code, "ok")
    /\ UNCHANGED <<conns, nextWs, gwNow>>

\* faulty variant: a code no session has opens a session instead of being
\* rejected
ConnectionJoiningUnknown(sessionCode, typeParam) ==
  LET ws == nextWs
      clientType == IF typeParam = "" THEN "browser" ELSE typeParam
      fresh == [browsers |-> <<>>, mcpClients |-> <<>>, createdAt |-> gwNow]
      session == IF sessionCode \in DOMAIN sessions THEN sessions[sessionCode] ELSE fresh IN
  /\ nextWs' = nextWs + 1
  /\ IF sessionCode = NoCode
     THEN /\ sent' = <<Msg(ws, "error")>>
          /\ gwReq' = Served("connection", sessionCode, "closed")
          /\ UNCHANGED <<sessions, conns>>
     ELSE /\ sessions' = Put(sessions, sessionCode,
                             IF clientType = "mcp"
                             THEN [session EXCEPT !.mcpClients = Append(@, ws)]
                             ELSE [session EXCEPT !.browsers = Append(@, ws)])
          /\ conns' = Put(conns, ws, [sessionCode |-> sessionCode,
                                      clientType |-> clientType, readyState |-> OPEN])
          /\ sent' = <<Msg(ws, "connected")>>
          /\ gwReq' = Served("connection", sessionCode, "ok")
  /\ UNCHANGED gwNow

\* wss.on('connection'): ws is the new WebSocket object
Connection(sessionCode, typeParam) ==
  LET ws == nextWs
      clientType == IF typeParam = "" THEN "browser" ELSE typeParam IN
  /\ nextWs' = nextWs + 1
  /\ IF sessionCode = NoCode \/ sessionCode \notin DOMAIN sessions
     THEN /\ sent' = <<Msg(ws, "error")>>
          /\ gwReq' = Served("connection", sessionCode, "closed")
          /\ UNCHANGED <<sessions, conns>>
     ELSE /\ sessions' =
               [sessions EXCEPT ![sessionCode] =
                  IF clientType = "mcp"
                  THEN [@ EXCEPT !.mcpClients = Append(@, ws)]
                  ELSE [@ EXCEPT !.browsers = Append(@, ws)]]
          /\ conns' = Put(conns, ws, [sessionCode |-> sessionCode,
                                      clientType |-> clientType, readyState |-> OPEN])
          /\ sent' = (IF clientType = "mcp"
                      THEN BroadcastToBrowsers(sessionCode, "mcp:connected") ELSE <<>>)
                     \o <<Msg(ws, "connected")>>
          /\ gwReq' = Served("connection", sessionCode, "ok")
  /\ UNCHANGED gwNow

\* ws.on('message') of a joined connection
OnMessage(ws, raw) ==
  /\ ws \in DOMAIN conns
  /\ conns[ws].readyState = OPEN
  /\ sent' = IF raw.parses /\ raw.event = "data:changed"
             THEN BroadcastToBrowsers(conns[ws].sessionCode, "data:changed") ELSE <<>>
  /\ gwReq' = Served("message", conns[ws].sessionCode, "ok")
  /\ UNCHANGED <<sessions, conns, nextWs, gwNow>>

\* the closing handshake of a joined connection starts: it is still a member
\* of its session, and no longer OPEN
StartClosing(ws) ==
  /\ ws \in DOMAIN conns
  /\ conns[ws].readyState = OPEN
  /\ conns' = [conns EXCEPT ![ws].readyState = CLOSING]
  /\ sent' = <<>>
  /\ gwReq' = Served("closing", conns[ws].sessionCode, "ok")
  /\ UNCHANGED <<sessions, nextWs, gwNow>>

\* faulty variant: the closed socket is always taken out of the browsers
OnCloseAsBrowser(ws) ==
  /\ ws \in DOMAIN conns
  /\ LET sessionCode == conns[ws].sessionCode
         session == sessions[sessionCode]
         left == [session EXCEPT !.browsers = SelectSeq(@, LAMBDA w : w # ws)] IN
     /\ conns' = Remove(conns, ws)
     /\ sent' = IF conns[ws].clientType = "mcp"
                THEN BroadcastToBrowsers(sessionCode, "mcp:disconnected") ELSE <<>>
     /\ sessions' = IF left.browsers = <<>> /\ left.mcpClients = <<>>
                    THEN Remove(sessions, sessionCode)
                    ELSE Put(sessions, sessionCode, left)
     /\ gwReq' = Served("close", sessionCode, "ok")
  /\ UNCHANGED <<nextWs, gwNow>>

\* ws.on('close') of a joined connection: the socket is CLOSED and leaves
OnClose(ws) ==
  /\ ws \in DOMAIN conns
  /\ LET sessionCode == conns[ws].sessionCode
         session == sessions[sessionCode]
         left == IF conns[ws].clientType = "mcp"
                 THEN [session EXCEPT !.mcpClients = SelectSeq(@, LAMBDA w : w # ws)]
                 ELSE [session EXCEPT !.browsers = SelectSeq(@, LAMBDA w : w # ws)] IN
     /\ conns' = Remove(conns, ws)
     /\ sent' = IF conns[ws].clientType = "mcp"
                THEN BroadcastToBrowsers(sessionCode, "mcp:disconnected") ELSE <<>>
     /\ sessions' = IF left.browsers = <<>> /\ left.mcpClients = <<>>
                    THEN Remove(sessions, sessionCode)
                    ELSE Put(sessions, sessionCode, left)
     /\ gwReq' = Served("close", sessionCode, "ok")
  /\ UNCHANGED <<nextWs, gwNow>>

Stale(session) ==
  /\ session.browsers = <<>>
  /\ session.mcpClients = <<>>
  /\ gwNow - session.createdAt > StaleMs

\* the setInterval callback
Sweep ==
  /\ gwNow > 0
  /\ sessions' = [code \in {c \in DOMAIN sessions : ~Stale(sessions[c])} |-> sessions[code]]
  /\ sent' = <<>>
  /\ gwReq' = Served("sweep", NoCode, "ok")
  /\ UNCHANGED <<conns, nextWs, gwNow>>

\* one sweep period passes
AdvanceTime ==
  /\ gwNow' = gwNow + SweepEveryMs
  /\ sent' = <<>>
  /\ gwReq' = Served("time", NoCode, "ok")
  /\ UNCHANGED <<sessions, conns, nextWs>>

(***************************************************************************)
(* Server: REST routes over the store                                      *)
(***************************************************************************)
DefaultSource == "browser"

\* if (session) broadcastToBrowsers(session, event, ...)
IfSession(session, event) ==
  IF session # NoCode THEN BroadcastToBrowsers(session, event) ELSE <<>>

\* faulty variant: the broadcast is made whether or not the store threw
AnswerBroadcastingOnError(route, session, origin, msgs) ==
  /\ sent' = msgs
  /\ gwReq' = [Served(route, session, response'.status) EXCEPT !.origin = origin]
  /\ UNCHANGED <<sessions, conns, nextWs, gwNow>>

\* what follows the store call of a route: the events written when the store
\* returned, none when it threw (the catch answers with the error)
Answer(route, session, origin, msgs) ==
  /\ sent' = IF response'.status = "ok" THEN msgs ELSE <<>>
  /\ gwReq' = [Served(route, session, response'.status) EXCEPT !.origin = origin]
  /\ UNCHANGED <<sessions, conns, nextWs, gwNow>>

PostProject(p, session, origin) ==
  /\ CreateProject(p, DefaultSource)
  /\ Answer("createProject", session, origin, IfSession(session, "project:created"))

DeleteProjectRoute(p, session, origin) ==
  /\ DeleteProject(p)
  /\ Answer("deleteProject", session, origin, IfSession(session, "project:deleted"))

PostCategory(p, n, session, origin) ==
  /\ CreateCategory(p, DefaultSource, n)
  /\ Answer("createCategory", session, origin, IfSession(session, "data:changed"))

PutCategory(p, cat, n, session, origin) ==
  /\ RenameCategory(p, DefaultSource, cat, n)
  /\ Answer("renameCategory", session, origin, IfSession(session, "data:changed"))

DeleteCategoryRoute(p, cat, session, origin) ==
  /\ DeleteCategory(p, DefaultSource, cat)
  /\ Answer("deleteCategory", session, origin, IfSession(session, "data:changed"))

PostToggle(p, cat, session, origin) ==
  /\ ToggleCategory(p, DefaultSource, cat)
  /\ Answer("toggleCategory", session, origin, <<>>)

PostChunk(p, cat, id, text, session, origin) ==
  /\ AddChunk(p, DefaultSource, cat, id, text)
  /\ Answer("addChunk", session, origin, IfSession(session, "data:changed"))

PostChunksBulk(p, cat, recs, session, origin) ==
  /\ BulkAddChunks(p, DefaultSource, cat, recs)
  /\ Answer("bulkAddChunks", session, origin, IfSession(session, "data:changed"))

PostChunkBlank(p, cat, session, origin) ==
  /\ AddBlankChunk(p, DefaultSource, cat)
  /\ Answer("addBlankChunk", session, origin, <<>>)

PutChunk(p, cat, uid, id, text, session, origin) ==
  /\ UpdateChunk(p, DefaultSource, cat, uid, id, text)
  /\ Answer("updateChunk", session, origin, IfSession(session, "data:changed"))

DeleteChunkRoute(p, cat, uid, session, origin) ==
  /\ DeleteChunk(p, DefaultSource, cat, uid)
  /\ Answer("deleteChunk", session, origin, IfSession(session, "data:changed"))

PostDuplicate(p, cat, uid, session, origin) ==
  /\ DuplicateChunk(p, DefaultSource, cat, uid)
  /\ Answer("duplicateChunk", session, origin, <<>>)

PostMove(p, cat, uid, target, session, origin) ==
  /\ MoveChunk(p, DefaultSource, cat, uid, target)
  /\ Answer("moveChunk", session, origin, IfSession(session, "data:changed"))

PostImport(p, payload, n, session, origin) ==
  /\ ImportJSON(p, DefaultSource, payload, n)
  /\ Answer("importJSON", session, origin, IfSession(session, "data:changed"))

IdleGateway ==
  /\ sessions = EmptyMap
  /\ conns = EmptyMap
  /\ nextWs = 1
  /\ gwNow = 0
  /\ sent = <<>>
  /\ gwReq = Served("none", NoCode, "ok")

\* the session parameter of a connection: absent, or a code
SessionParams == {NoCode} \cup Codes

\* the session parameter of a request: absent, or the code of one session
RequestSessions == {NoCode, CodeOf(<<0, 1, 2, 24, 25, 26>>)}

GwBatches == {<<[id |-> "creeper", text |-> "hostile"]>>}

\* who can have sent a request that names a session: someone outside the
\* sessions (0), or a client that is connected to that session
Origins(session) ==
  {0} \cup {ws \in DOMAIN conns :
              conns[ws].sessionCode = session /\ conns[ws].readyState = OPEN}

(***************************************************************************)
(* History view: the diff of two snapshots (App._computeDiff)              *)
(***************************************************************************)
\* A JavaScript string is the sequence of its characters; "->" stands for the
\* single character U+2192 of the templates.
\* the fixed parts of the template literals of _computeDiff
Txt ==
  [addedOpen |-> <<" ", "a", "d", "d", "e", "d", " ", "(">>,
   addedTo |-> <<" ", "a", "d", "d", "e", "d", " ", "t", "o", " ">>,
   arrow |-> <<" ", "->", " ">>,
   category |-> <<"C", "a", "t", "e", "g", "o", "r", "y", " ">>,
   chars |-> <<" ", "c", "h", "a", "r", "s", ")">>,
   chunk |-> <<"C", "h", "u", "n", "k", " ">>,
   chunksClose |-> <<" ", "c", "h", "u", "n", "k", "s", ")">>,
   colon |-> <<":", " ">>,
   comma |-> <<",", " ">>,
   id |-> <<"i", "d", ":", " ">>,
   inside |-> <<" ", "i", "n", " ">>,
   moved |-> <<" ", "m", "o", "v", "e", "d", ":", " ">>,
   open |-> <<" ", "(">>,
   removedFrom |-> <<" ", "r", "e", "m", "o", "v", "e", "d", " ", "f", "r",
      "o", "m", " ">>,
   removedOpen |-> <<" ", "r", "e", "m", "o", "v", "e", "d", " ", "(">>,
   renamed |-> <<"C", "a", "t", "e", "g", "o", "r", "y", " ", "r", "e", "n",
      "a", "m", "e", "d", ":", " ">>,
   textChanged |-> <<"t", "e", "x", "t", " ", "c", "h", "a", "n", "g", "e",
      "d", " ", "(">>]

\* the names, ids and metadata that occur in the snapshots
Words ==
  [mobs |-> <<"M", "o", "b", "s">>,
   boss |-> <<"B", "o", "s", "s">>,
   license |-> <<"l", "i", "c", "e", "n", "s", "e">>,
   mit |-> <<"M", "I", "T">>,
   cc0 |-> <<"C", "C", "0">>]

Digits ==
  <<"0", "1", "2", "3", "4", "5", "6", "7", "8", "9">>

Quoted(s) == <<"\"">> \o s \o <<"\"">>

\* a number inside a template literal
RECURSIVE Decimal(_)
Decimal(n) ==
  IF n < 10 THEN <<Digits[n + 1]>>
  ELSE Decimal(n \div 10) \o <<Digits[(n % 10) + 1]>>

\* String.prototype.includes
Includes(text, pattern) ==
  \E i \in 0..(Len(text) - Len(pattern)) : SubSeq(text, i + 1, i + Len(pattern)) = pattern

\* Array.prototype.join
RECURSIVE Join(_, _)
Join(parts, sep) ==
  IF parts = <<>> THEN <<>>
  ELSE IF Len(parts) = 1 THEN parts[1]
  ELSE parts[1] \o sep \o Join(Tail(parts), sep)

RECURSIVE Flatten(_)
Flatten(seqs) == IF seqs = <<>> THEN <<>> ELSE seqs[1] \o Flatten(Tail(seqs))

\* Array.prototype.findIndex: the index, counted from 0, of the first element
\* that passes the test, or -1
\* (hits: the positions, counted from 1, of the elements that pass the test)
FindIndex(hits) ==
  IF hits = {} THEN -1 ELSE (CHOOSE i \in hits : \A j \in hits : i <= j) - 1

\* arr.splice(start, 1): a negative start counts from the end of the array
Splice(arr, start) ==
  LET from == IF start >= 0 THEN start
              ELSE IF Len(arr) + start < 0 THEN 0 ELSE Len(arr) + start IN
  IF from >= Len(arr) THEN arr
  ELSE SubSeq(arr, 1, from) \o SubSeq(arr, from + 2, Len(arr))

\* new Map(pairs): the keys in the order of their first insertion, each with
\* the value inserted last
MapFrom(pairs) ==
  LET n == Len(pairs)
      firsts == SelectSeq([i \in 1..n |-> i],
                          LAMBDA i : \A j \in 1..(i - 1) : pairs[j].key # pairs[i].key)
      lastOf(k) == CHOOSE j \in 1..n :
                     pairs[j].key = k /\ \A l \in (j + 1)..n : pairs[l].key # k IN
  [m \in 1..Len(firsts) |->
     [key |-> pairs[firsts[m]].key, value |-> pairs[lastOf(pairs[firsts[m]].key)].value]]

MapHas(map, k) == \E i \in 1..Len(map) : map[i].key = k

MapGet(map, k) == map[CHOOSE i \in 1..Len(map) : map[i].key = k].value

DiffRecord(type, text) == [type |-> type, text |-> text]

\* faulty variant: the chunks of the categories are left out
FirstSnapshotDiffWithoutChunks(curr) ==
  [i \in 1..Len(curr.categories) |->
     DiffRecord("added", Txt.category \o Quoted(curr.categories[i].name) \o Txt.open
                           \o Decimal(Len(curr.categories[i].chunks)) \o Txt.chunksClose)]

\* the branch of a missing previous snapshot: the current state as "added"
FirstSnapshotDiff(curr) ==
  Flatten([i \in 1..Len(curr.categories) |->
     LET cat == curr.categories[i] IN
     <<DiffRecord("added", Txt.category \o Quoted(cat.name) \o Txt.open
                             \o Decimal(Len(cat.chunks)) \o Txt.chunksClose)>>
     \o [j \in 1..Len(cat.chunks) |->
           DiffRecord("added", Txt.chunk \o Quoted(cat.chunks[j].id) \o Txt.inside
                                 \o Quoted(cat.name))]])

CategoryMap(snapshot) ==
  MapFrom([i \in 1..Len(snapshot.categories) |->
             [key |-> snapshot.categories[i].id, value |-> snapshot.categories[i]]])

ChunkMap(cat) ==
  MapFrom([i \in 1..Len(cat.chunks) |-> [key |-> cat.chunks[i]._uid, value |-> cat.chunks[i]]])

\* metadata is an object: its entries in insertion order
MetaHas(metadata, k) == \E i \in 1..Len(metadata) : metadata[i].key = k

\* metadata[k]: None stands for undefined
MetaValue(metadata, k) ==
  IF MetaHas(metadata, k)
  THEN Some(metadata[CHOOSE i \in 1..Len(metadata) : metadata[i].key = k].value)
  ELSE None

\* pv || ''
OrEmpty(v) == IF v = None THEN <<>> ELSE v[1]

\* new Set([...Object.keys(prev), ...Object.keys(curr)])
MetaKeys(prevCh, currCh) ==
  LET keys == [i \in 1..Len(prevCh.metadata) |-> prevCh.metadata[i].key]
              \o [i \in 1..Len(currCh.metadata) |-> currCh.metadata[i].key]
      firsts == SelectSeq([i \in 1..Len(keys) |-> i],
                          LAMBDA i : \A j \in 1..(i - 1) : keys[j] # keys[i]) IN
  [m \in 1..Len(firsts) |-> keys[firsts[m]]]

\* the changes of one chunk that is in the category in both snapshots
ChunkChanges(prevCh, currCh) ==
  LET keys == MetaKeys(prevCh, currCh) IN
  (IF prevCh.id # currCh.id
   THEN <<Txt.id \o Quoted(prevCh.id) \o Txt.arrow \o Quoted(currCh.id)>> ELSE <<>>)
  \o (IF prevCh.text # currCh.text
      THEN <<Txt.textChanged \o Decimal(Len(prevCh.text)) \o Txt.arrow
               \o Decimal(Len(currCh.text)) \o Txt.chars>>
      ELSE <<>>)
  \o Flatten([i \in 1..Len(keys) |->
       LET pv == MetaValue(prevCh.metadata, keys[i])
           cv == MetaValue(currCh.metadata, keys[i]) IN
       IF pv # cv
       THEN <<keys[i] \o Txt.colon \o Quoted(OrEmpty(pv)) \o Txt.arrow \o Quoted(OrEmpty(cv))>>
       ELSE <<>>])

\* faulty variant: the rename is recorded after the chunks of the category
CategoryDiffRenamedLast(prevCat, currCat) ==
  LET prevChunks == ChunkMap(prevCat)
      currChunks == ChunkMap(currCat) IN
  Flatten([i \in 1..Len(prevChunks) |->
       IF ~MapHas(currChunks, prevChunks[i].key)
       THEN <<DiffRecord("deleted", Txt.chunk \o Quoted(prevChunks[i].value.id)
                                      \o Txt.removedFrom \o Quoted(currCat.name))>>
       ELSE <<>>])
  \o Flatten([i \in 1..Len(currChunks) |->
       IF ~MapHas(prevChunks, currChunks[i].key)
       THEN <<DiffRecord("added", Txt.chunk \o Quoted(currChunks[i].value.id)
                                    \o Txt.addedTo \o Quoted(currCat.name))>>
       ELSE <<>>])
  \o Flatten([i \in 1..Len(currChunks) |->
       IF ~MapHas(prevChunks, currChunks[i].key) THEN <<>>
       ELSE LET currCh == currChunks[i].value
                changes == ChunkChanges(MapGet(prevChunks, currChunks[i].key), currCh) IN
            IF Len(changes) > 0
            THEN <<DiffRecord("modified", Txt.chunk \o Quoted(currCh.id) \o Txt.inside
                                            \o Quoted(currCat.name) \o Txt.colon
                                            \o Join(changes, Txt.comma))>>
            ELSE <<>>])
  \o (IF prevCat.name # currCat.name
      THEN <<DiffRecord("modified", Txt.renamed \o Quoted(prevCat.name) \o Txt.arrow
                                      \o Quoted(currCat.name))>>
      ELSE <<>>)

\* one round of the loop "Modified categories": a category of both snapshots
CategoryDiff(prevCat, currCat) ==
  LET prevChunks == ChunkMap(prevCat)
      currChunks == ChunkMap(currCat) IN
  (IF prevCat.name # currCat.name
   THEN <<DiffRecord("modified", Txt.renamed \o Quoted(prevCat.name) \o Txt.arrow
                                   \o Quoted(currCat.name))>>
   ELSE <<>>)
  \o Flatten([i \in 1..Len(prevChunks) |->
       IF ~MapHas(currChunks, prevChunks[i].key)
       THEN <<DiffRecord("deleted", Txt.chunk \o Quoted(prevChunks[i].value.id)
                                      \o Txt.removedFrom \o Quoted(currCat.name))>>
       ELSE <<>>])
  \o Flatten([i \in 1..Len(currChunks) |->
       IF ~MapHas(prevChunks, currChunks[i].key)
       THEN <<DiffRecord("added", Txt.chunk \o Quoted(currChunks[i].value.id)
                                    \o Txt.addedTo \o Quoted(currCat.name))>>
       ELSE <<>>])
  \o Flatten([i \in 1..Len(currChunks) |->
       IF ~MapHas(prevChunks, currChunks[i].key) THEN <<>>
       ELSE LET currCh == currChunks[i].value
                changes == ChunkChanges(MapGet(prevChunks, currChunks[i].key), currCh) IN
            IF Len(changes) > 0
            THEN <<DiffRecord("modified", Txt.chunk \o Quoted(currCh.id) \o Txt.inside
                                            \o Quoted(currCat.name) \o Txt.colon
                                            \o Join(changes, Txt.comma))>>
            ELSE <<>>])

\* the loops over the categories: deleted, added, modified
CategoryDiffs(prev, curr) ==
  LET prevCats == CategoryMap(prev)
      currCats == CategoryMap(curr) IN
  Flatten([i \in 1..Len(prevCats) |->
     IF ~MapHas(currCats, prevCats[i].key)
     THEN <<DiffRecord("deleted", Txt.category \o Quoted(prevCats[i].value.name)
                                    \o Txt.removedOpen
                                    \o Decimal(Len(prevCats[i].value.chunks)) \o Txt.chunksClose)>>
     ELSE <<>>])
  \o Flatten([i \in 1..Len(currCats) |->
       IF ~MapHas(prevCats, currCats[i].key)
       THEN <<DiffRecord("added", Txt.category \o Quoted(currCats[i].value.name)
                                    \o Txt.addedOpen
                                    \o Decimal(Len(currCats[i].value.chunks)) \o Txt.chunksClose)>>
       ELSE <<>>])
  \o Flatten([i \in 1..Len(currCats) |->
       IF ~MapHas(prevCats, currCats[i].key) THEN <<>>
       ELSE CategoryDiff(MapGet(prevCats, currCats[i].key), currCats[i].value)])

\* allPrevChunkUids, allCurrChunkUids: _uid -> { cat: cat.name, ch }
AllChunkUids(snapshot) ==
  MapFrom(Flatten([i \in 1..Len(snapshot.categories) |->
            LET cat == snapshot.categories[i] IN
            [j \in 1..Len(cat.chunks) |->
               [key |-> cat.chunks[j]._uid, value |-> [cat |-> cat.name, ch |-> cat.chunks[j]]]]]))

\* faulty variant: every chunk of both snapshots counts as moved
IsMovedAlways(prevInfo, currInfo) == TRUE

\* prevInfo.cat !== currInfo.cat
IsMoved(prevInfo, currInfo) == prevInfo.cat # currInfo.cat

\* one round of the loop over allCurrChunkUids
MoveStep(diffs, uid, currInfo, allPrev) ==
  IF ~MapHas(allPrev, uid) THEN diffs
  ELSE LET prevInfo == MapGet(allPrev, uid) IN
       IF ~IsMoved(prevInfo, currInfo) THEN diffs
       ELSE LET addIdx == FindIndex({i \in 1..Len(diffs) :
                            /\ diffs[i].type = "added"
                            /\ Includes(diffs[i].text, Quoted(currInfo.ch.id))
                            /\ Includes(diffs[i].text, Quoted(currInfo.cat))})
                delIdx == FindIndex({i \in 1..Len(diffs) :
                            /\ diffs[i].type = "deleted"
                            /\ Includes(diffs[i].text, Quoted(prevInfo.ch.id))
                            /\ Includes(diffs[i].text, Quoted(prevInfo.cat))})
                afterAdd == IF addIdx # -1 THEN Splice(diffs, addIdx) ELSE diffs
                afterDel == IF delIdx # -1
                            THEN Splice(afterAdd, IF delIdx > addIdx THEN delIdx - 1 ELSE delIdx)
                            ELSE afterAdd IN
            Append(afterDel,
                   DiffRecord("modified", Txt.chunk \o Quoted(currInfo.ch.id) \o Txt.moved
                                            \o Quoted(prevInfo.cat) \o Txt.arrow
                                            \o Quoted(currInfo.cat)))

RECURSIVE MoveChunks(_, _, _)
MoveChunks(diffs, entries, allPrev) ==
  IF entries = <<>> THEN diffs
  ELSE MoveChunks(MoveStep(diffs, entries[1].key, entries[1].value, allPrev),
                  Tail(entries), allPrev)

\* App._computeDiff(prev, curr); prev is None for null
ComputeDiff(prev, curr) ==
  IF prev = None THEN FirstSnapshotDiff(curr)
  ELSE MoveChunks(CategoryDiffs(prev[1], curr), AllChunkUids(curr), AllChunkUids(prev[1]))

\* the snapshots the history view is given: categories c1 and c2 named Mobs
\* or Boss, chunks 1 and 2, each in one of the categories or absent, with an
\* empty id or an id that another chunk or a category can have as well
DiffCatIds == <<"c1", "c2">>

DiffNames == {Words.mobs, Words.boss}

DiffUids == <<1, 2>>

ChunkVariants ==
  {[id |-> <<>>, text |-> <<"a">>,
    metadata |-> <<[key |-> Words.license, value |-> Words.mit]>>, customFields |-> <<>>],
   [id |-> <<>>, text |-> <<"a">>,
    metadata |-> <<[key |-> Words.license, value |-> Words.mit]>>,
    customFields |-> <<[key |-> Words.boss, value |-> Words.mobs]>>],
   [id |-> Words.mobs, text |-> <<"a">>,
    metadata |-> <<[key |-> Words.license, value |-> Words.mit]>>, customFields |-> <<>>],
   [id |-> Words.boss, text |-> <<"a", "b">>,
    metadata |-> <<[key |-> Words.license, value |-> Words.cc0]>>, customFields |-> <<>>]}

Range(s) == {s[i] : i \in 1..Len(s)}

MakeSnapshot(cats, nameOf, placeOf, variantOf) ==
  LET present == SelectSeq(DiffCatIds, LAMBDA c : c \in cats) IN
  [categories |->
     [i \in 1..Len(present) |->
        LET uids == SelectSeq(DiffUids, LAMBDA u : placeOf[u] = present[i]) IN
        [id |-> present[i], name |-> nameOf[present[i]],
         chunks |-> [j \in 1..Len(uids) |->
                       [_uid |-> uids[j], id |-> variantOf[uids[j]].id,
                        text |-> variantOf[uids[j]].text,
                        metadata |-> variantOf[uids[j]].metadata,
                        customFields |-> variantOf[uids[j]].customFields]]]]]

Snapshots ==
  UNION {{MakeSnapshot(cats, nameOf, placeOf, variantOf) :
            nameOf \in [cats -> DiffNames],
            placeOf \in [Range(DiffUids) -> cats \cup {"none"}],
            variantOf \in [Range(DiffUids) -> ChunkVariants]} :
         cats \in SUBSET Range(DiffCatIds)}

NotComputed == None

IdleDiff ==
  /\ dPrev = None
  /\ dCurr = [categories |-> <<>>]
  /\ dDiffs = NotComputed

\* the click on a commit of the timeline
ShowCommitDetail ==
  /\ dDiffs = NotComputed
  /\ dDiffs' = Some(ComputeDiff(dPrev, dCurr))
  /\ UNCHANGED <<dPrev, dCurr>>

(***************************************************************************)
(* Browser client of the server: Store.init, Store._connectWS              *)
(***************************************************************************)
\* currentProjectName = null and currentProject = null
NoProject == [name |-> "", project |-> None]

\* the modal is hidden; opened and used are the values App.selected had when
\* the modal was opened and when its Delete button was last clicked
NoModal == [open |-> FALSE, opened |-> NoSelection, used |-> NoSelection, outcome |-> "none"]

\* no session code yet and no socket
IdleClient ==
  /\ client = [sessionCode |-> NoCode, ws |-> 0, status |-> "idle", sockets |-> 0]
  /\ mcpConnected = FALSE
  /\ inbox = <<>>
  /\ current = NoProject
  /\ tasks = <<>>
  /\ modal = NoModal
  /\ saved = None
  /\ told = FALSE

\* Store.init: the code of GET /api/session is kept and _connectWS builds the
\* first socket
StoreInit ==
  /\ client.status = "idle"
  /\ GetSession
  /\ client' = [sessionCode |-> gwReq'.session, ws |-> 0, status |-> "connecting",
                sockets |-> 1]
  /\ UNCHANGED <<mcpConnected, tasks>>

\* the server's connection handler runs for the socket _connectWS built: a
\* socket that joined is open; a rejected one is closed by the server, and its
\* onclose has _connectWS build the next socket 3 seconds later, same code
ConnectWS ==
  /\ client.status \in {"connecting", "reconnecting"}
  /\ Connection(client.sessionCode, "browser")
  /\ client' = IF gwReq'.status = "ok"
               THEN [client EXCEPT !.ws = nextWs, !.status = "open"]
               ELSE [client EXCEPT !.ws = 0, !.status = "reconnecting",
                                   !.sockets = @ + 1]
  /\ UNCHANGED <<mcpConnected, tasks>>

\* the open socket closes: the server's close handler runs, and onclose
\* clears _mcpConnected and has _connectWS build the next socket 3 seconds
\* later, same code
WsOnClose ==
  /\ client.status = "open"
  /\ OnClose(client.ws)
  /\ client' = [client EXCEPT !.ws = 0, !.status = "reconnecting", !.sockets = @ + 1]
  /\ mcpConnected' = FALSE
  /\ UNCHANGED tasks

\* App._renderContent: a selection whose chunk is not in the current project
\* is cleared (a project that is null shows the welcome screen instead)
ViewRendered(cur, sel) ==
  IF /\ sel # NoSelection
     /\ cur.project # None
     /\ ~HasChunk(cur.project[1], sel[1].categoryId, sel[1].chunkUid)
  THEN NoSelection ELSE sel

\* Store._ws.onmessage for the oldest event not handled yet: the MCP events
\* set _mcpConnected and notify the listeners, which render; a change event
\* starts its handler, which first awaits refreshProjectList
WsOnMessage ==
  /\ client.status = "open"
  /\ inbox # <<>>
  /\ inbox' = Tail(inbox)
  /\ LET msg == Head(inbox) IN
     /\ mcpConnected' = CASE msg.event = "mcp:connected" -> TRUE
                           [] msg.event = "mcp:disconnected" -> FALSE
                           [] OTHER -> mcpConnected
     /\ selected' = IF msg.event \in {"mcp:connected", "mcp:disconnected"}
                    THEN ViewRendered(current, selected) ELSE selected
     /\ tasks' = IF msg.event \in {"data:changed", "project:created", "project:deleted"}
                 THEN Append(tasks, [event |-> msg.event, project |-> msg.project,
                                     phase |-> "refreshing", answer |-> None])
                 ELSE tasks
  /\ UNCHANGED <<client, current>>

\* the transport: the events the server wrote to the client's socket wait for
\* onmessage in the order they were written; a socket that closed delivers
\* nothing more. project is the dataset name the data of a change event
\* carries.
Wire(project) ==
  LET written == SelectSeq(sent', LAMBDA m : m.to = client'.ws)
      events == [i \in 1..Len(written) |->
                   [event |-> written[i].event,
                    project |-> IF written[i].event \in {"data:changed", "project:created",
                                                          "project:deleted"}
                                THEN project ELSE ""]] IN
  inbox' = IF client'.ws = 0 THEN <<>>
           ELSE (IF client'.ws = client.ws THEN inbox ELSE <<>>) \o events

(***************************************************************************)
(* Browser client of the server: the handlers of change events             *)
(* (Store._handleRemoteChange, _handleRemoteProjectCreated,                *)
(* _handleRemoteProjectDeleted, _loadProject) and the chunk actions of App *)
(***************************************************************************)
\* what GET /api/projects/:name answers: the project, or an error
GetProject(name) == IF name \in DOMAIN projects THEN Some(projects[name]) ELSE None

\* _loadProject once its request is answered: the answer becomes the current
\* project; an error clears the project and its name
Loaded(name, answer) ==
  IF answer # None THEN [name |-> name, project |-> answer] ELSE NoProject

\* the project a handler of a change event loads once refreshProjectList has
\* returned, "" when it loads none
ProjectToLoad(t) ==
  CASE t.event = "data:changed" ->
         IF t.project # ""
         THEN (IF current.name = "" \/ current.name = t.project THEN t.project ELSE "")
         ELSE current.name
    [] t.event = "project:created" -> t.project
    [] OTHER ->
         IF current.name = t.project /\ DOMAIN projects # {}
         THEN CHOOSE name \in DOMAIN projects : TRUE ELSE ""

\* currentProjectName and currentProject when refreshProjectList has returned
\* to the handler of project:deleted and the project list is empty
AfterRefresh(t) ==
  IF t.event = "project:deleted" /\ current.name = t.project /\ DOMAIN projects = {}
  THEN NoProject ELSE current

\* refreshProjectList returns to handler i: the handler that loads no project
\* notifies the listeners and ends; the other one calls _loadProject, and the
\* server answers its request from the live dataset
RefreshProjectListDone(i) ==
  /\ i <= Len(tasks)
  /\ tasks[i].phase = "refreshing"
  /\ LET name == ProjectToLoad(tasks[i]) IN
     IF name = ""
     THEN /\ tasks' = RemoveAt(tasks, i)
          /\ current' = AfterRefresh(tasks[i])
          /\ selected' = ViewRendered(current', selected)
     ELSE /\ tasks' = [tasks EXCEPT ![i] = [@ EXCEPT !.phase = "loading", !.project = name,
                                                     !.answer = GetProject(name)]]
          /\ current' = IF tasks[i].event = "project:deleted"
                        THEN [current EXCEPT !.name = name] ELSE current
          /\ UNCHANGED selected
  /\ UNCHANGED <<client, mcpConnected, inbox, modal>>

\* the answer to the request of _loadProject reaches handler i: the project is
\* assigned, the listeners are notified, and App renders
LoadProjectDone(i) ==
  /\ i <= Len(tasks)
  /\ tasks[i].phase = "loading"
  /\ current' = Loaded(tasks[i].project, tasks[i].answer)
  /\ tasks' = RemoveAt(tasks, i)
  /\ selected' = ViewRendered(current', selected)
  /\ UNCHANGED <<client, mcpConnected, inbox, modal>>

\* App._handleTreeClick, action select-chunk: a chunk of the rendered tree
AppSelectChunk(catId, chunkUid) ==
  /\ ~modal.open
  /\ current.project # None
  /\ HasChunk(current.project[1], catId, chunkUid)
  /\ selected' = Some([categoryId |-> catId, chunkUid |-> chunkUid])
  /\ UNCHANGED <<client, mcpConnected, inbox, current, tasks, modal>>

\* App._deleteCurrentChunk: the modal is shown; its Delete button reads
\* App.selected when it is clicked
AppDeleteCurrentChunk ==
  /\ ~modal.open
  /\ selected # NoSelection
  /\ modal' = [open |-> TRUE, opened |-> selected, used |-> NoSelection, outcome |-> "none"]
  /\ UNCHANGED <<client, mcpConnected, inbox, current, tasks, selected>>

\* the click on Cancel
AppModalCancel ==
  /\ modal.open
  /\ modal' = NoModal
  /\ UNCHANGED <<client, mcpConnected, inbox, current, tasks, selected>>

\* Store.updateChunk up to its request: the chunk of the current project takes
\* the data of the form
UpdatedLocally(cur, catId, chunkUid, form) ==
  IF cur.project # None /\ HasChunk(cur.project[1], catId, chunkUid)
  THEN LET ds == cur.project[1]
           cat == CatOf(ds, catId)
           j == ChunkIndex(cat, chunkUid) IN
       [cur EXCEPT !.project =
          Some(SetCat(ds, catId, [cat EXCEPT !.chunks[j].id = form.id,
                                             !.chunks[j].text = form.text]))]
  ELSE cur

\* ghost: whether the mutation the server has just served wrote an event to
\* the client's socket (a request that was rejected changes nothing)
Told ==
  told' = IF response'.status = "ok"
          THEN \E k \in 1..Len(sent') : sent'[k].to = client.ws
          ELSE told

\* App._saveCurrentChunk with Store.updateChunk: the form is refused when its id
\* is taken in the current project; otherwise the current project is updated,
\* then the server is asked, and its answer is awaited
AppSaveCurrentChunk(form) ==
  /\ ~modal.open
  /\ selected # NoSelection
  /\ current.name # ""
  /\ ~(/\ form.id # ""
        /\ current.project # None
        /\ IsChunkIdTaken(current.project[1], form.id, selected[1].chunkUid))
  /\ UNCHANGED <<client, mcpConnected, tasks, modal, selected>>
  /\ current' = UpdatedLocally(current, selected[1].categoryId, selected[1].chunkUid, form)
  /\ PutChunk(current.name, selected[1].categoryId, selected[1].chunkUid, form.id, form.text,
              client.sessionCode, client.ws)
  /\ Wire(current.name)
  /\ Told
  /\ saved' = Some([status |-> response'.status, before |-> current.project,
                    chunk |-> selected[1]])

\* the click on Delete of the modal: App.selected is read now. Reading a field
\* of null throws, and nothing else happens. Store.deleteChunk asks the server
\* and, once the chunk is deleted, loads the project again and notifies; then
\* the selection is cleared and the modal is closed. A rejected request throws
\* and leaves the modal open.
AppModalConfirm ==
  /\ modal.open
  /\ saved' = None
  /\ UNCHANGED <<client, mcpConnected, tasks>>
  /\ IF selected = NoSelection
     THEN /\ modal' = [modal EXCEPT !.used = NoSelection, !.outcome = "threw"]
          /\ UNCHANGED <<storeVars, gatewayVars, inbox, current, selected, told>>
     ELSE IF current.name = ""
     THEN /\ modal' = [modal EXCEPT !.open = FALSE, !.used = selected, !.outcome = "returned"]
          /\ selected' = NoSelection
          /\ UNCHANGED <<storeVars, gatewayVars, inbox, current, told>>
     ELSE /\ DeleteChunkRoute(current.name, selected[1].categoryId, selected[1].chunkUid,
                              client.sessionCode, client.ws)
          /\ Wire(current.name)
          /\ Told
          /\ IF response'.status = "ok"
             THEN /\ current' = Loaded(current.name, Some(projects'[current.name]))
                  /\ selected' = NoSelection
                  /\ modal' = [modal EXCEPT !.open = FALSE, !.used = selected,
                                            !.outcome = "deleted"]
             ELSE /\ modal' = [modal EXCEPT !.used = selected, !.outcome = "rejected"]
                  /\ UNCHANGED <<current, selected>>

(***************************************************************************)
(* Specifications of the versioned store                                   *)
(***************************************************************************)
InitStore ==
  /\ projects = EmptyMap
  /\ history = EmptyMap
  /\ nextUid = 1
  /\ nextCommit = 1
  /\ clock = 0
  /\ response = [op |-> "none", id |-> "", status |-> "ok"]
  /\ count = EmptyMap
  /\ pre = EmptyMap

Init == InitStore /\ IdleEditor /\ IdleGateway /\ IdleDiff /\ IdleClient

\* the identifiers a request names: those of the dataset, and one that is unknown
CatArgs(p) == {0} \cup (IF p \in DOMAIN projects THEN CatIds(projects[p]) ELSE {})

ChunkArgs(p) ==
  {0} \cup (IF p \in DOMAIN projects
            THEN {ch._uid : ch \in AllChunks(projects[p])} ELSE {})

CommitArgs(p) == {0} \cup CommitIds(p)

Room(p) == p \in DOMAIN projects => Len(projects[p].categories) < MaxCats

ChunkRoom(p) == p \in DOMAIN projects => TotalChunks(projects[p]) < MaxChunks

BatchRoom(p, recs) ==
  p \in DOMAIN projects => TotalChunks(projects[p]) + Len(recs) <= MaxChunks

Batches == {<<[id |-> "creeper", text |-> "hostile"]>>,
            <<[id |-> "creeper", text |-> "hostile"], [id |-> "creeper", text |-> "hostile"]>>}

Payloads == {[isArray |-> FALSE, records |-> <<>>],
             [isArray |-> TRUE, records |-> <<[id |-> "creeper", text |-> "hostile"]>>]}

StoreOnly == UNCHANGED <<editorVars, gatewayVars, diffVars, browserVars>>

Budget == nextCommit <= MaxOps

Next ==
  \E p \in ProjectNames, src \in Sources :
    \/ Budget /\ StoreOnly /\ CreateProject(p, src)
    \/ Budget /\ StoreOnly /\ DeleteProject(p)
    \/ \E n \in CatNames \cup {""} : Budget /\ StoreOnly /\ Room(p) /\ CreateCategory(p, src, n)
    \/ \E cid \in CatArgs(p), n \in CatNames : Budget /\ StoreOnly /\ RenameCategory(p, src, cid, n)
    \/ \E cid \in CatArgs(p) : Budget /\ StoreOnly /\ DeleteCategory(p, src, cid)
    \/ \E cid \in CatArgs(p) : Budget /\ StoreOnly /\ ToggleCategory(p, src, cid)
    \/ \E cid \in CatArgs(p), id \in ChunkIds, t \in Texts :
         Budget /\ StoreOnly /\ ChunkRoom(p) /\ AddChunk(p, src, cid, id, t)
    \/ \E cid \in CatArgs(p) : Budget /\ StoreOnly /\ ChunkRoom(p) /\ AddBlankChunk(p, src, cid)
    \/ \E cid \in CatArgs(p), uid \in ChunkArgs(p), id \in ChunkIds, t \in Texts :
         Budget /\ StoreOnly /\ UpdateChunk(p, src, cid, uid, id, t)
    \/ \E cid \in CatArgs(p), uid \in ChunkArgs(p) : Budget /\ StoreOnly /\ DeleteChunk(p, src, cid, uid)
    \/ \E cid \in CatArgs(p), uid \in ChunkArgs(p) :
         Budget /\ StoreOnly /\ ChunkRoom(p) /\ DuplicateChunk(p, src, cid, uid)
    \/ \E cid \in CatArgs(p), uid \in ChunkArgs(p), target \in CatArgs(p) :
         Budget /\ StoreOnly /\ MoveChunk(p, src, cid, uid, target)
    \/ \E c \in CommitArgs(p) : Budget /\ StoreOnly /\ Rollback(p, src, c)
    \/ \E cid \in CatArgs(p), recs \in Batches :
         Budget /\ StoreOnly /\ BatchRoom(p, recs) /\ BulkAddChunks(p, src, cid, recs)
    \/ \E payload \in Payloads, n \in {"Mobs"} :
         /\ Budget /\ StoreOnly /\ Room(p) /\ BatchRoom(p, payload.records)
         /\ ImportJSON(p, src, payload, n)

Spec == Init /\ [][Next]_vars

\* long request streams: one category renamed back and forth fills the log;
\* rollbacks are requested once the log is nearly full
LogBudget == nextCommit <= MaxLogOps

NearlyFull(p) == Len(LogOf(p)) >= MaxCommits - 1

RollbacksIn(p) ==
  Cardinality({i \in 1..Len(LogOf(p)) : LogOf(p)[i].action = "rollback"})

LogTargets(p) ==
  IF LogOf(p) = <<>> THEN {}
  ELSE {LogOf(p)[1].id, LogOf(p)[Len(LogOf(p))].id,
        LogOf(p)[IF Len(LogOf(p)) > 1 THEN Len(LogOf(p)) - 1 ELSE 1].id}

NextLog ==
  \E p \in ProjectNames, src \in Sources :
    \/ LogBudget /\ StoreOnly /\ p \notin DOMAIN projects /\ CreateProject(p, src)
    \/ /\ LogBudget /\ StoreOnly
       /\ p \in DOMAIN projects
       /\ projects[p].categories = <<>>
       /\ CreateCategory(p, src, "Mobs")
    \/ \E cid \in CatArgs(p) \ {0}, n \in CatNames :
         /\ LogBudget /\ StoreOnly
         /\ n # CatOf(projects[p], cid).name
         /\ RenameCategory(p, src, cid, n)
    \/ \E c \in LogTargets(p) :
         /\ LogBudget /\ StoreOnly
         /\ NearlyFull(p)
         /\ RollbacksIn(p) < MaxLogRollbacks
         /\ Rollback(p, src, c)

SpecLog == Init /\ [][NextLog]_vars

(***************************************************************************)
(* Specification of the browser editor                                     *)
(***************************************************************************)
InitEditor == InitStore /\ IdleEditor /\ IdleGateway /\ IdleDiff /\ IdleClient

EditorOnly == edUid <= MaxEdUid /\ UNCHANGED <<storeVars, gatewayVars, diffVars, browserVars>>

NextEditor ==
  \/ \E n \in NameInputs : EditorOnly /\ ShowNewProjectModal(n)
  \/ \E n \in NameInputs : EditorOnly /\ ConfirmCategory(n)
  \/ \E c \in EdCatIds : EditorOnly /\ HandleToggle(c)
  \/ \E c \in EdCatIds : EditorOnly /\ HandleAddChunk(c)
  \/ \E c \in EdCatIds : EditorOnly /\ HandleDeleteCategory(c)
  \/ \E c \in EdCatIds, u \in EdChunkUids : EditorOnly /\ HandleSelectChunk(c, u)
  \/ \E f \in FormInputs : EditorOnly /\ SaveCurrentChunk(f)
  \/ \E f \in FormInputs : EditorOnly /\ HandleExport(f)
  \/ EditorOnly /\ DuplicateCurrentChunk
  \/ EditorOnly /\ DeleteCurrentChunk
  \/ \E c \in EdCatIds, u \in EdChunkUids : EditorOnly /\ HandleDeleteChunkFromTree(c, u)

SpecEditor == InitEditor /\ [][NextEditor]_vars

(***************************************************************************)
(* Specification of the browser editor with the Import button: the runs of  *)
(* SpecEditor and the runs in which a file is imported                      *)
(***************************************************************************)
NextEditorImport ==
  \/ \E n \in NameInputs : EditorOnly /\ ShowNewProjectModal(n)
  \/ \E n \in NameInputs : EditorOnly /\ ConfirmCategory(n)
  \/ \E c \in EdCatIds : EditorOnly /\ HandleToggle(c)
  \/ \E c \in EdCatIds : EditorOnly /\ HandleAddChunk(c)
  \/ \E c \in EdCatIds : EditorOnly /\ HandleDeleteCategory(c)
  \/ \E c \in EdCatIds, u \in EdChunkUids : EditorOnly /\ HandleSelectChunk(c, u)
  \/ \E f \in FormInputs : EditorOnly /\ SaveCurrentChunk(f)
  \/ \E f \in FormInputs : EditorOnly /\ HandleExport(f)
  \/ \E file \in ImportFiles : EditorOnly /\ HandleImport(file)
  \/ EditorOnly /\ DuplicateCurrentChunk
  \/ EditorOnly /\ DeleteCurrentChunk
  \/ \E c \in EdCatIds, u \in EdChunkUids : EditorOnly /\ HandleDeleteChunkFromTree(c, u)

SpecEditorImport == InitEditor /\ [][NextEditorImport]_vars

(***************************************************************************)
(* Specification of the server                                             *)
(***************************************************************************)
InitGateway == InitStore /\ IdleEditor /\ IdleGateway /\ IdleDiff /\ IdleClient

GwBudget == nextCommit <= MaxGwOps

SocketsLeft == nextWs <= MaxSockets

RegistrySocketsLeft == nextWs <= MaxRegSockets

TimeLeft == gwNow < MaxTicks * SweepEveryMs

RegistryOnly == UNCHANGED <<storeVars, editorVars, diffVars, browserVars>>

RouteOnly(session, origin) ==
  GwBudget /\ origin \in Origins(session) /\ UNCHANGED <<editorVars, diffVars, browserVars>>

GwCatArgs(p) == IF CatArgs(p) = {0} THEN {0} ELSE CatArgs(p) \ {0}

GwChunkArgs(p) == IF ChunkArgs(p) = {0} THEN {0} ELSE ChunkArgs(p) \ {0}

NextGateway ==
  \/ RegistryOnly /\ GetSession
  \/ \E code \in SessionParams, type \in TypeParams :
       RegistryOnly /\ SocketsLeft /\ Connection(code, type)
  \/ \E ws \in DOMAIN conns, raw \in RawMessages : RegistryOnly /\ OnMessage(ws, raw)
  \/ \E ws \in DOMAIN conns : RegistryOnly /\ StartClosing(ws)
  \/ \E ws \in DOMAIN conns : RegistryOnly /\ OnClose(ws)
  \/ \E p \in ProjectNames, session \in RequestSessions, origin \in 0..MaxSockets :
         \/ RouteOnly(session, origin) /\ PostProject(p, session, origin)
         \/ RouteOnly(session, origin) /\ DeleteProjectRoute(p, session, origin)
         \/ RouteOnly(session, origin) /\ Room(p) /\ PostCategory(p, "Mobs", session, origin)
         \/ \E cat \in GwCatArgs(p) :
              RouteOnly(session, origin) /\ PutCategory(p, cat, "Enemies", session, origin)
         \/ \E cat \in GwCatArgs(p) :
              RouteOnly(session, origin) /\ DeleteCategoryRoute(p, cat, session, origin)
         \/ \E cat \in GwCatArgs(p) : RouteOnly(session, origin) /\ PostToggle(p, cat, session, origin)
         \/ \E cat \in GwCatArgs(p) :
              RouteOnly(session, origin) /\ ChunkRoom(p) /\ PostChunk(p, cat, "creeper", "hostile", session, origin)
         \/ \E cat \in GwCatArgs(p), recs \in GwBatches :
              RouteOnly(session, origin) /\ BatchRoom(p, recs) /\ PostChunksBulk(p, cat, recs, session, origin)
         \/ \E cat \in GwCatArgs(p) :
              RouteOnly(session, origin) /\ ChunkRoom(p) /\ PostChunkBlank(p, cat, session, origin)
         \/ \E cat \in GwCatArgs(p), uid \in GwChunkArgs(p) :
              RouteOnly(session, origin) /\ PutChunk(p, cat, uid, "creeper", "hostile", session, origin)
         \/ \E cat \in GwCatArgs(p), uid \in GwChunkArgs(p) :
              RouteOnly(session, origin) /\ DeleteChunkRoute(p, cat, uid, session, origin)
         \/ \E cat \in GwCatArgs(p), uid \in GwChunkArgs(p) :
              RouteOnly(session, origin) /\ ChunkRoom(p) /\ PostDuplicate(p, cat, uid, session, origin)
         \/ \E cat \in GwCatArgs(p), uid \in GwChunkArgs(p), target \in GwCatArgs(p) :
              RouteOnly(session, origin) /\ PostMove(p, cat, uid, target, session, origin)
         \/ \E payload \in Payloads :
              /\ RouteOnly(session, origin) /\ Room(p) /\ BatchRoom(p, payload.records)
              /\ PostImport(p, payload, "Mobs", session, origin)

SpecGateway == InitGateway /\ [][NextGateway]_vars

\* the session registry alone, with the time that passes between sweeps
NextRegistry ==
  \/ RegistryOnly /\ GetSession
  \/ \E code \in SessionParams, type \in TypeParams :
       RegistryOnly /\ RegistrySocketsLeft /\ Connection(code, type)
  \/ \E ws \in DOMAIN conns, raw \in RawMessages : RegistryOnly /\ OnMessage(ws, raw)
  \/ \E ws \in DOMAIN conns : RegistryOnly /\ StartClosing(ws)
  \/ \E ws \in DOMAIN conns : RegistryOnly /\ OnClose(ws)
  \/ RegistryOnly /\ Sweep
  \/ RegistryOnly /\ TimeLeft /\ AdvanceTime

SpecRegistry == InitGateway /\ [][NextRegistry]_vars

(***************************************************************************)
(* Specification of one browser client and the session registry            *)
(***************************************************************************)
ClientOnly == UNCHANGED <<storeVars, editorVars, diffVars, current, modal, saved, told>>

\* the events written to the client's socket are not looked at
Unread == UNCHANGED inbox

\* the sockets of the other clients
OtherSockets == DOMAIN conns \ {client.ws}

NextReconnect ==
  \/ ClientOnly /\ Unread /\ StoreInit
  \/ ClientOnly /\ Unread /\ RegistrySocketsLeft /\ ConnectWS
  \/ ClientOnly /\ Unread /\ WsOnClose
  \/ RegistryOnly /\ GetSession
  \/ \E code \in SessionParams, type \in TypeParams :
       RegistryOnly /\ RegistrySocketsLeft /\ Connection(code, type)
  \/ \E ws \in DOMAIN conns, raw \in RawMessages : RegistryOnly /\ OnMessage(ws, raw)
  \/ \E ws \in DOMAIN conns : RegistryOnly /\ StartClosing(ws)
  \/ \E ws \in OtherSockets : RegistryOnly /\ OnClose(ws)
  \/ RegistryOnly /\ Sweep
  \/ RegistryOnly /\ TimeLeft /\ AdvanceTime

SpecReconnect == InitGateway /\ [][NextReconnect]_vars

(***************************************************************************)
(* Specification of one browser client that handles the events of its      *)
(* socket, and the session registry                                        *)
(***************************************************************************)
\* a step of the server that the client takes no part in
ServerOnly ==
  UNCHANGED <<storeVars, editorVars, diffVars, client, mcpConnected, current, tasks, modal,
              saved, told>>

NextPresence ==
  \/ ClientOnly /\ StoreInit /\ Wire("")
  \/ ClientOnly /\ RegistrySocketsLeft /\ ConnectWS /\ Wire("")
  \/ ClientOnly /\ WsOnClose /\ Wire("")
  \/ ClientOnly /\ WsOnMessage /\ UNCHANGED gatewayVars
  \/ \E code \in SessionParams, type \in TypeParams :
       ServerOnly /\ RegistrySocketsLeft /\ Connection(code, type) /\ Wire("")
  \/ \E ws \in OtherSockets : ServerOnly /\ OnClose(ws) /\ Wire("")

SpecPresence == InitGateway /\ [][NextPresence]_vars

(***************************************************************************)
(* Specification of one browser client that views and edits the project    *)
(* other clients change through the routes                                 *)
(***************************************************************************)
ViewerBudget == nextCommit <= MaxViewerOps

ViewerOnly == UNCHANGED <<data, edUid, imported, download, diffVars>>

\* a handler of the browser that sends nothing to the server
Local == saved' = None /\ UNCHANGED <<storeVars, gatewayVars, told>>

\* a request of another client: the browser takes no part in it
Remote(session) ==
  /\ ViewerBudget
  /\ saved' = None
  /\ UNCHANGED <<client, mcpConnected, selected, current, tasks, modal>>

ViewerForms == {[id |-> "creeper", text |-> "calm"], [id |-> "zombie", text |-> "hostile"]}

NextViewer ==
  \/ /\ ViewerOnly /\ StoreInit /\ Wire("")
     /\ saved' = None /\ UNCHANGED <<storeVars, selected, current, modal, told>>
  \/ /\ ViewerOnly /\ client.status = "connecting" /\ ConnectWS /\ Wire("")
     /\ saved' = None /\ UNCHANGED <<storeVars, selected, current, modal, told>>
  \/ ViewerOnly /\ Local /\ WsOnMessage /\ UNCHANGED modal
  \/ \E i \in 1..MaxViewerOps : ViewerOnly /\ Local /\ RefreshProjectListDone(i)
  \/ \E i \in 1..MaxViewerOps : ViewerOnly /\ Local /\ LoadProjectDone(i)
  \/ \E p \in ProjectNames, session \in RequestSessions :
         \/ ViewerOnly /\ Remote(session) /\ PostProject(p, session, 0) /\ Wire(p) /\ Told
         \/ /\ ViewerOnly /\ Remote(session) /\ Room(p)
            /\ PostCategory(p, "Mobs", session, 0) /\ Wire(p) /\ Told
         \/ \E cat \in GwCatArgs(p) :
              /\ ViewerOnly /\ Remote(session) /\ ChunkRoom(p)
              /\ PostChunk(p, cat, "creeper", "hostile", session, 0) /\ Wire(p) /\ Told
         \/ \E cat \in GwCatArgs(p), uid \in GwChunkArgs(p) :
              /\ ViewerOnly /\ Remote(session)
              /\ DeleteChunkRoute(p, cat, uid, session, 0) /\ Wire(p) /\ Told
  \/ \E cat \in 1..MaxViewerOps, uid \in 1..MaxViewerOps :
       ViewerOnly /\ Local /\ AppSelectChunk(cat, uid)
  \/ ViewerOnly /\ Local /\ AppDeleteCurrentChunk
  \/ ViewerOnly /\ Local /\ AppModalCancel
  \/ ViewerOnly /\ (selected # NoSelection => ViewerBudget) /\ AppModalConfirm
  \/ \E form \in ViewerForms : ViewerOnly /\ ViewerBudget /\ AppSaveCurrentChunk(form)

SpecViewer == InitGateway /\ [][NextViewer]_vars

(***************************************************************************)
(* Specification of the history view                                       *)
(***************************************************************************)
InitDiff ==
  /\ InitStore /\ IdleEditor /\ IdleGateway /\ IdleClient
  /\ dPrev \in {None} \cup {Some(s) : s \in Snapshots}
  /\ dCurr \in Snapshots
  /\ dDiffs = NotComputed

DiffOnly == UNCHANGED <<storeVars, editorVars, gatewayVars, browserVars>>

NextDiff == DiffOnly /\ ShowCommitDetail

SpecDiff == InitDiff /\ [][NextDiff]_vars

(***************************************************************************)
(* Properties of the versioned store                                       *)
(***************************************************************************)
Min(a, b) == IF a < b THEN a ELSE b

Last(s) == s[Len(s)]

Errors == {"Conflict", "NotFound", "InvalidInput"}

\* C1: after any sequence of successful mutations on a dataset, list has
\* min(N, number of successful mutations) entries with N = 50, never more than
\* 50, in ascending timestamp order, and the entries are the most recent
\* commits: it is always the oldest commit that has been evicted.
C1_LogLengthOrderFifo ==
  /\ MaxCommits = 50
  /\ \A p \in DOMAIN projects :
       /\ Len(List(p)) = Min(50, count[p])
       /\ Len(List(p)) <= 50
       /\ \A i, j \in 1..Len(List(p)) :
            i < j => List(p)[i].timestamp <= List(p)[j].timestamp
       /\ \A i \in 1..Len(List(p)) :
            List(p)[i].id = nextCommit - Len(List(p)) + i - 1

\* C1 witness: the 51st mutation of a fresh dataset has evicted commit #1
C1_Witness ==
  \E p \in DOMAIN projects :
    /\ count[p] = 51
    /\ nextCommit = 52
    /\ Len(List(p)) = 50
    /\ List(p)[1].id = 2

\* C2: a successful mutation appends exactly one commit to the log of its
\* dataset, and in every state between requests the snapshot of the newest
\* commit of each dataset equals the live dataset.
C2_NewestSnapshotIsLive ==
  \A p \in DOMAIN projects :
    /\ LogOf(p) # <<>>
    /\ Deref(p, Last(LogOf(p)).snapshot) = projects[p]

C2_OneCommitPerMutation ==
  [][(response'.status = "ok" /\ response'.op # "deleteProject")
       => \E p \in DOMAIN projects' :
            LET old == LogOf(p)
                kept == IF Len(old) = MaxCommits THEN Tail(old) ELSE old IN
            /\ Len(LogOf(p)') = Len(kept) + 1
            /\ SubSeq(LogOf(p)', 1, Len(kept)) = kept
            /\ Last(LogOf(p)').id \notin CommitIds(p)
            /\ \A q \in DOMAIN projects' \ {p} : LogOf(q)' = LogOf(q)]_vars

C3_FailedMutationChangesNothing ==
  [][/\ response'.status # "ok"
          => /\ response'.status \in Errors
             /\ projects' = projects
             /\ history' = history
     /\ \A p \in DOMAIN projects :
          (/\ response'.op = "addChunk"
           /\ response'.id # ""
           /\ \E ch \in AllChunks(projects[p]) : ch.id = response'.id)
            => /\ response'.status \in Errors
               /\ projects' = projects
               /\ history' = history]_vars

\* C3 witness: adding a second "creeper" was answered with Conflict
C3_Witness ==
  /\ response = [op |-> "addChunk", id |-> "creeper", status |-> "Conflict"]
  /\ \E p \in DOMAIN projects :
       /\ Len(projects[p].categories) = 2
       /\ \E ch \in AllChunks(projects[p]) : ch.id = "creeper"

\* the step is a successful rollback of dataset p
RollbackStep(p) ==
  /\ response'.op = "rollback"
  /\ response'.status = "ok"
  /\ p \in DOMAIN projects
  /\ nextCommit' = nextCommit + 1

\* what a successful rollback does to the data and to the end of the log
RollbackEffect(p) ==
  LET new == LogOf(p)'
      target == pre'[nextCommit].target IN
  /\ target \in CommitIds(p)
  /\ projects'[p] = Deref(p, LogOf(p)[CommitIndex(p, target)].snapshot)
  /\ Last(new).id = nextCommit
  /\ Last(new).action = "rollback"
  /\ DerefNext(p, Last(new).snapshot) = projects'[p]
  /\ Cardinality({j \in 1..Len(new) : new[j].id \notin CommitIds(p)}) = 1

\* C4 as stated: a rollback sets the live dataset to the commit's snapshot,
\* appends exactly one commit with action "rollback", and every commit that
\* was in the log before is still there, unchanged, also when the log was at
\* capacity.
C4_RollbackKeepsWholeLog ==
  [][\A p \in ProjectNames :
       RollbackStep(p)
         => /\ RollbackEffect(p)
            /\ \A i \in 1..Len(LogOf(p)) :
                 \E j \in 1..Len(LogOf(p)') : LogOf(p)'[j] = LogOf(p)[i]]_vars

\* C4 amended: a rollback sets the live dataset to the commit's snapshot and
\* appends exactly one commit with action "rollback"; the commits that were in
\* the log before are still there, unchanged and in order, except that a log
\* at capacity loses its oldest commit to the FIFO eviction.
C4_RollbackKeepsLogButOldest ==
  [][\A p \in ProjectNames :
       RollbackStep(p)
         => /\ RollbackEffect(p)
            /\ LET old == LogOf(p)
                   kept == IF Len(old) = MaxCommits THEN Tail(old) ELSE old IN
               SubSeq(LogOf(p)', 1, Len(LogOf(p)') - 1) = kept]_vars

\* C4 witness: a rollback was made on a log at capacity
C4_Witness ==
  /\ response.op = "rollback"
  /\ response.status = "ok"
  /\ \E p \in DOMAIN projects :
       /\ count[p] > MaxCommits
       /\ Len(LogOf(p)) = MaxCommits
       /\ Last(LogOf(p)).action = "rollback"

\* the last two commits of p are a rollback and the rollback to that rollback
DoubleRollback(p) ==
  LET log == LogOf(p)
      n == Len(log) IN
  /\ n >= 2
  /\ log[n].action = "rollback"
  /\ log[n - 1].action = "rollback"
  /\ pre[log[n].id].target = log[n - 1].id

\* C5 as stated: rolling back to C and then to the commit created by that
\* rollback restores the dataset to D, its state before the first rollback.
C5_DoubleRollbackRestoresD ==
  \A p \in DOMAIN projects :
    DoubleRollback(p)
      => Some(projects[p]) = pre[LogOf(p)[Len(LogOf(p)) - 1].id].before

\* C5 amended: rolling back to C and then to the commit created by that
\* rollback leaves the dataset equal to the snapshot of C, the state the first
\* rollback produced: the second rollback changes no data.
C5_DoubleRollbackKeepsC ==
  \A p \in DOMAIN projects :
    DoubleRollback(p)
      => LET log == LogOf(p)
             c == pre[log[Len(log) - 1].id].target IN
         /\ Some(projects[p]) = pre[log[Len(log)].id].before
         /\ c \in CommitIds(p)
              => projects[p] = Deref(p, log[CommitIndex(p, c)].snapshot)

\* C5 witness: two such rollbacks were made from a state D that differs from
\* the snapshot of C
C5_Witness ==
  \E p \in DOMAIN projects :
    /\ DoubleRollback(p)
    /\ response.op = "rollback"
    /\ Some(projects[p]) # pre[LogOf(p)[Len(LogOf(p)) - 1].id].before

\* what get returns for the commit and its snapshot
GetCommitAndSnapshot(p, i) ==
  LET g == Get(p, LogOf(p)[i].id) IN
  /\ g.commit = LogOf(p)[i]
  /\ g.snapshot = Deref(p, LogOf(p)[i].snapshot)

\* C6 as stated: get returns the commit, its snapshot and the snapshot of the
\* immediately preceding commit, which is null exactly when the commit is the
\* first one of the dataset; the diff is the change made by that mutation.
C6_PrevNullIffFirstOfDataset ==
  \A p \in DOMAIN projects :
    \A i \in 1..Len(LogOf(p)) :
      LET c == LogOf(p)[i].id IN
      /\ GetCommitAndSnapshot(p, i)
      /\ Get(p, c).prevSnapshot = None <=> pre[c].before = None
      /\ Get(p, c).prevSnapshot = pre[c].before

\* C6 amended: get returns the commit, its snapshot and the snapshot of the
\* immediately preceding commit, which is null exactly when the commit is the
\* oldest one retained in the log (the first one of the dataset only until
\* the log overflows); for every other commit the pair is the dataset before
\* and after that commit's mutation.
C6_PrevNullIffOldestRetained ==
  \A p \in DOMAIN projects :
    \A i \in 1..Len(LogOf(p)) :
      LET c == LogOf(p)[i].id IN
      /\ GetCommitAndSnapshot(p, i)
      /\ Get(p, c).prevSnapshot = None <=> i = 1
      /\ i > 1 => /\ Get(p, c).prevSnapshot = Some(Deref(p, LogOf(p)[i - 1].snapshot))
                  /\ Get(p, c).prevSnapshot = pre[c].before
      /\ Some(Get(p, c).snapshot) = IF i < Len(LogOf(p))
                                     THEN pre[LogOf(p)[i + 1].id].before
                                     ELSE Some(projects[p])

\* C6 witness: the oldest retained commit is not the first of its dataset
C6_Witness ==
  \E p \in DOMAIN projects :
    /\ count[p] > MaxCommits
    /\ Get(p, LogOf(p)[1].id).prevSnapshot = None
    /\ pre[LogOf(p)[1].id].before # None

C8_EditorIdsUnique ==
  \A i \in 1..Len(data.projects) :
    LET chunks == UNION {{c.chunks[j] : j \in 1..Len(c.chunks)} :
                         c \in {data.projects[i].categories[k] :
                                  k \in 1..Len(data.projects[i].categories)}} IN
    \A a, b \in chunks : (a._uid # b._uid /\ a.id # "") => a.id # b.id

(***************************************************************************)
(* Properties of the server                                                *)
(***************************************************************************)
Recipients(event) == {sent[i].to : i \in {k \in 1..Len(sent) : sent[k].event = event}}

TimesSent(ws) == Cardinality({i \in 1..Len(sent) : sent[i].to = ws})

Members(code, role) ==
  IF code \notin DOMAIN sessions THEN {}
  ELSE {ws \in DOMAIN conns : conns[ws].sessionCode = code /\ conns[ws].clientType = role}

Connected(members) == {ws \in members : conns[ws].readyState = OPEN}

MutatingRoutes ==
  {"createProject", "deleteProject", "createCategory", "renameCategory",
   "deleteCategory", "toggleCategory", "addChunk", "addBlankChunk", "updateChunk",
   "deleteChunk", "duplicateChunk", "moveChunk", "bulkAddChunks", "importJSON"}

SilentRoutes == {"toggleCategory", "addBlankChunk", "duplicateChunk"}

ChangeEvent(route) ==
  CASE route = "createProject" -> "project:created"
    [] route = "deleteProject" -> "project:deleted"
    [] OTHER -> "data:changed"

\* the last handler was a mutation that succeeded and carried a session code
MutationWithSession ==
  /\ gwReq.route \in MutatingRoutes
  /\ gwReq.status = "ok"
  /\ gwReq.session # NoCode

C9_OtherSessionWitness ==
  /\ MutationWithSession
  /\ sent # <<>>
  /\ \E ws \in DOMAIN conns :
       conns[ws].sessionCode # gwReq.session /\ conns[ws].readyState = OPEN

\* C10 (as stated): every mutating route that is called with a session code
\* and succeeds triggers exactly one change event: each open browser of the
\* session is sent the event once.
C10_EveryMutationNotifiesOnce ==
  MutationWithSession =>
    \A ws \in Connected(Members(gwReq.session, "browser")) :
      Cardinality({i \in 1..Len(sent) :
                     sent[i].to = ws /\ sent[i].event = ChangeEvent(gwReq.route)}) = 1

\* C11: when the store rejects a mutation, the route answers with that error
\* and writes no event to any socket; the sessions registry, the connections
\* and the dataset are left as they were.
C11_RejectedMutationIsSilent ==
  [][(gwReq'.route \in MutatingRoutes /\ response'.status \in Errors) =>
       /\ gwReq'.status = response'.status
       /\ sent' = <<>>
       /\ sessions' = sessions
       /\ conns' = conns
       /\ projects' = projects
       /\ history' = history]_vars

\* C11 witness: a route that broadcasts was called with the code of a session
\* that has an open browser, the store rejected the mutation, nothing was sent
C11_Witness ==
  /\ gwReq.route \in MutatingRoutes \ SilentRoutes
  /\ gwReq.status \in Errors
  /\ gwReq.session \in DOMAIN sessions
  /\ Connected(Members(gwReq.session, "browser")) # {}
  /\ sent = <<>>

\* the browsers of a session in the order the broadcast visits them
BrowsersInOrder(code) == sessions[code].browsers

C13_BadCodeIsRejected ==
  [][(/\ gwReq'.route = "connection"
      /\ gwReq'.session = NoCode \/ gwReq'.session \notin DOMAIN sessions) =>
       /\ sent' = <<Msg(nextWs, "error")>>
       /\ gwReq'.status = "closed"
       /\ sessions' = sessions
       /\ conns' = conns]_vars

\* C13 witness: a connection naming a code that no session has was rejected
\* while another session had an open browser
C13_Witness ==
  /\ gwReq.route = "connection"
  /\ gwReq.status = "closed"
  /\ gwReq.session \in Codes \ DOMAIN sessions
  /\ sent = <<Msg(nextWs - 1, "error")>>
  /\ \E ws \in DOMAIN conns : conns[ws].clientType = "browser" /\ conns[ws].readyState = OPEN

\* the socket whose close handler ran in this step
Closed == DOMAIN conns \ DOMAIN conns'

\* C14 (as stated): every join of an MCP client writes mcp:connected to the
\* open browsers of its session, and mcp:disconnected is written to them when
\* the last MCP client of the session disconnects, not while another MCP
\* client of the session is still a member.
C14_PresenceOnJoinAndLastLeave ==
  [][/\ (gwReq'.route = "connection" /\ gwReq'.status = "ok"
         /\ conns'[nextWs].clientType = "mcp") =>
          {sent'[i].to : i \in {k \in 1..Len(sent') : sent'[k].event = "mcp:connected"}}
            = Connected(Members(gwReq'.session, "browser"))
     /\ (gwReq'.route = "close" /\ \E ws \in Closed : conns[ws].clientType = "mcp") =>
          {sent'[i].to : i \in {k \in 1..Len(sent') : sent'[k].event = "mcp:disconnected"}}
            = IF Members(gwReq'.session, "mcp") \subseteq Closed
              THEN Connected(Members(gwReq'.session, "browser")) ELSE {}]_vars

\* C15 (as stated): a session leaves the registry only in a sweep, and only
\* when it has no member and more than the idle threshold has passed since its
\* creation; a disconnect alone removes no session.
C15_OnlySweepRemovesSessions ==
  [][\A code \in DOMAIN sessions \ DOMAIN sessions' :
       /\ gwReq'.route = "sweep"
       /\ sessions[code].browsers = <<>>
       /\ sessions[code].mcpClients = <<>>
       /\ gwNow - sessions[code].createdAt > StaleMs]_vars

\* C16: the code of a new session has six characters of the alphabet without
\* I, O, 0 and 1 and is the code of no session of the registry, so the new
\* session replaces none: every other session is left as it was.
C16_FreshCodeFromAlphabet ==
  [][gwReq'.route = "session" =>
       LET code == gwReq'.session IN
       /\ Len(code) = 6
       /\ \A i \in 1..Len(code) :
            /\ code[i] \in {Chars[k] : k \in 1..Len(Chars)}
            /\ code[i] \notin {"I", "O", "0", "1"}
       /\ code \notin DOMAIN sessions
       /\ DOMAIN sessions' = DOMAIN sessions \cup {code}
       /\ \A other \in DOMAIN sessions : sessions'[other] = sessions[other]]_vars

\* C16 witness: a session was created while another session with a member
\* existed, and both are in the registry
C16_Witness ==
  /\ gwReq.route = "session"
  /\ Cardinality(DOMAIN sessions) = 2
  /\ sessions[gwReq.session].browsers = <<>>
  /\ \E code \in DOMAIN sessions : sessions[code].browsers # <<>>

(***************************************************************************)
(* Properties of the history view                                          *)
(***************************************************************************)
Computed == dDiffs # NotComputed

Result == dDiffs[1]

ChunksOf(snapshot) ==
  Flatten([i \in 1..Len(snapshot.categories) |-> snapshot.categories[i].chunks])

\* C17: the diff of a snapshot against itself is the empty list, for every
\* snapshot: also with several categories, with chunks whose ids are empty or
\* repeated, and with categories that share a name.
C17_SelfDiffIsEmpty ==
  (Computed /\ dPrev = Some(dCurr)) => Result = <<>>

\* C17 witness: the diff of a snapshot against itself was computed for a
\* snapshot of two categories with one name, each with a chunk whose id is
\* empty
C17_Witness ==
  /\ Computed
  /\ dPrev = Some(dCurr)
  /\ Len(dCurr.categories) = 2
  /\ dCurr.categories[1].name = dCurr.categories[2].name
  /\ Len(dCurr.categories[1].chunks) = 1
  /\ Len(dCurr.categories[2].chunks) = 1
  /\ dCurr.categories[1].chunks[1].id = <<>>
  /\ dCurr.categories[2].chunks[1].id = <<>>
  /\ Result = <<>>

\* C18: the diff against a missing previous snapshot has one record for each
\* category and one for each chunk of the snapshot, all of kind added, and no
\* other record.
C18_FirstDiffAddsEverything ==
  (Computed /\ dPrev = None) =>
    /\ Len(Result) = Len(dCurr.categories) + Len(ChunksOf(dCurr))
    /\ \A i \in 1..Len(Result) : Result[i].type = "added"

\* C18 witness: the diff against no previous snapshot was computed for a
\* snapshot of two categories and two chunks and has four records
C18_Witness ==
  /\ Computed
  /\ dPrev = None
  /\ Len(dCurr.categories) = 2
  /\ Len(ChunksOf(dCurr)) = 2
  /\ Len(Result) = 4

\* the two snapshots have the same categories with the same chunks, and the
\* category at position i has another name
RenamedAt(prev, curr, i) ==
  /\ Len(prev.categories) = Len(curr.categories)
  /\ i \in 1..Len(curr.categories)
  /\ prev.categories[i].name # curr.categories[i].name
  /\ \A k \in 1..Len(curr.categories) :
       /\ prev.categories[k].id = curr.categories[k].id
       /\ prev.categories[k].chunks = curr.categories[k].chunks
       /\ k # i => prev.categories[k].name = curr.categories[k].name

\* C19 (as stated): for two snapshots that differ only in the name of one
\* category, the diff is exactly one record, the modified record
\* 'Category renamed: "old" -> "new"', whether or not the category has chunks.
C19_RenameIsOneRecord ==
  (Computed /\ dPrev # None) =>
    \A i \in 1..Len(dCurr.categories) :
      RenamedAt(dPrev[1], dCurr, i) =>
        Result = <<DiffRecord("modified",
                              Txt.renamed \o Quoted(dPrev[1].categories[i].name)
                                \o Txt.arrow \o Quoted(dCurr.categories[i].name))>>

UidsOf(snapshot) == {ch._uid : ch \in Range(ChunksOf(snapshot))}

CategoryOf(snapshot, uid) ==
  CHOOSE cat \in Range(snapshot.categories) : \E ch \in Range(cat.chunks) : ch._uid = uid

ChunkWith(snapshot, uid) == CHOOSE ch \in Range(ChunksOf(snapshot)) : ch._uid = uid

CategoryIdsOf(snapshot) == {cat.id : cat \in Range(snapshot.categories)}

CategoryWith(snapshot, id) == CHOOSE cat \in Range(snapshot.categories) : cat.id = id

\* the stable identifiers that are in both snapshots under different categories
MovedUids(prev, curr) ==
  {uid \in UidsOf(prev) \cap UidsOf(curr) :
     CategoryOf(prev, uid).id # CategoryOf(curr, uid).id}

\* the chunk records the join on the stable identifier gives: one moved record
\* for a chunk of both snapshots whose category differs, an added record for a
\* chunk of the current snapshot only, a deleted record for a chunk of the
\* previous snapshot only (the latter two inside a category of both snapshots)
ExpectedChunkRecords(prev, curr) ==
  Flatten([i \in 1..Len(DiffUids) |->
    LET uid == DiffUids[i] IN
    IF uid \in MovedUids(prev, curr)
    THEN <<DiffRecord("modified", Txt.chunk \o Quoted(ChunkWith(curr, uid).id) \o Txt.moved
                                    \o Quoted(CategoryOf(prev, uid).name) \o Txt.arrow
                                    \o Quoted(CategoryOf(curr, uid).name))>>
    ELSE IF /\ uid \in UidsOf(curr) \ UidsOf(prev)
            /\ CategoryOf(curr, uid).id \in CategoryIdsOf(prev)
    THEN <<DiffRecord("added", Txt.chunk \o Quoted(ChunkWith(curr, uid).id) \o Txt.addedTo
                                 \o Quoted(CategoryOf(curr, uid).name))>>
    ELSE IF /\ uid \in UidsOf(prev) \ UidsOf(curr)
            /\ CategoryOf(prev, uid).id \in CategoryIdsOf(curr)
    THEN <<DiffRecord("deleted", Txt.chunk \o Quoted(ChunkWith(prev, uid).id) \o Txt.removedFrom
                                   \o Quoted(CategoryWith(curr, CategoryOf(prev, uid).id).name))>>
    ELSE <<>>])

Occurrences(records, r) == Cardinality({i \in 1..Len(records) : records[i] = r})

\* an added or deleted record of a chunk, or a moved record
IsChunkPlacementRecord(r) ==
  \/ r.type \in {"added", "deleted"} /\ SubSeq(r.text, 1, Len(Txt.chunk)) = Txt.chunk
  \/ r.type = "modified" /\ Includes(r.text, Txt.moved)

\* the snapshots the store produces: no two categories of a snapshot share a name
DistinctNames(snapshot) ==
  \A i, j \in 1..Len(snapshot.categories) :
    i # j => snapshot.categories[i].name # snapshot.categories[j].name

\* a category has the same name in both snapshots, and categories with
\* different identifiers have different names
NoRename(prev, curr) ==
  \A a \in Range(prev.categories), b \in Range(curr.categories) :
    (a.id = b.id) <=> (a.name = b.name)

\* C20 (as stated): a chunk whose stable identifier is in both snapshots under
\* different categories has exactly one moved record and no added or deleted
\* record, and the added and deleted records of the other chunks stay in the
\* output, whatever the user-facing ids are. Stated for snapshots whose
\* categories have distinct names, between which no category was renamed and
\* no name passed from one category to another.
C20_MovesJoinOnStableIdentifier ==
  (/\ Computed /\ dPrev # None
   /\ DistinctNames(dPrev[1]) /\ DistinctNames(dCurr)
   /\ NoRename(dPrev[1], dCurr)) =>
    \A r \in Range(Result) \cup Range(ExpectedChunkRecords(dPrev[1], dCurr)) :
      IsChunkPlacementRecord(r) =>
        Occurrences(Result, r) = Occurrences(ExpectedChunkRecords(dPrev[1], dCurr), r)

(***************************************************************************)
(* Properties of import and export in the browser editor                   *)
(***************************************************************************)
\* record y carries the id, the text and every metadata key and value of record x
RecordReproduced(x, y) ==
  /\ y.id = x.id
  /\ y.text = x.text
  /\ \A i \in 1..Len(x.metadata) :
       Member(y.metadata, x.metadata[i].key) = x.metadata[i].value

Reproduces(X, Y) ==
  /\ Len(Y) = Len(X)
  /\ \A i \in 1..Len(X) : RecordReproduced(X[i], Y[i])

\* every metadata value is a string and every key is non-blank and has no
\* whitespace around it
PlainStrings(X) ==
  \A i \in 1..Len(X) :
    \A k \in 1..Len(X[i].metadata) :
      /\ X[i].metadata[k].value.type = "string"
      /\ X[i].metadata[k].key # ""
      /\ Trim(X[i].metadata[k].key) = X[i].metadata[k].key

\* no metadata key is empty or whitespace only (export drops such a key)
NonBlankKeys(X) ==
  \A i \in 1..Len(X) :
    \A k \in 1..Len(X[i].metadata) : Trim(X[i].metadata[k].key) # ""

\* C21 (as stated): right after an array X of records {id, text, metadata}
\* without blank metadata keys is imported, exporting gives an array of the
\* same length and order that reproduces the id, the text and every metadata
\* key and value of each record.
C21_RoundTrip ==
  (imported # None /\ NonBlankKeys(imported[1])) =>
    /\ EdExportJSON(data) # None
    /\ Reproduces(imported[1], EdExportJSON(data)[1])

\* C21 (amended): the round trip reproduces every record of an imported array
\* whose metadata values are strings and whose metadata keys are non-blank
\* and carry no surrounding whitespace.
C21_RoundTripOfPlainStrings ==
  (imported # None /\ PlainStrings(imported[1])) =>
    /\ EdExportJSON(data) # None
    /\ Reproduces(imported[1], EdExportJSON(data)[1])

C21_Witness ==
  /\ imported # None
  /\ Len(imported[1]) = 2
  /\ PlainStrings(imported[1])
  /\ Member(imported[1][1].metadata, "health") = JsString("20")
  /\ Member(imported[1][1].metadata, "license") = JsString("MIT")
  /\ imported[1][2].id = "zombie"
  /\ Reproduces(imported[1], EdExportJSON(data)[1])

\* the chunks of the current project, in category order then chunk order
EdChunkList == Flatten([i \in 1..Len(EdCategories) |-> EdCategories[i].chunks])

NonBlank(customFields) == SelectSeq(customFields, LAMBDA cf : Trim(cf.key) # "")

\* C22: the downloaded array has one record per chunk of the project, in
\* category order then chunk order; each record has the chunk's id and text
\* and a metadata object that holds the three fixed fields with the chunk's
\* values and every custom field with a non-blank key (under the key without
\* its surrounding whitespace) with its value, and no other key.
C22_ExportHoldsEveryField ==
  download # None =>
    /\ Len(download[1]) = Len(EdChunkList)
    /\ \A i \in 1..Len(EdChunkList) :
         LET chunk == EdChunkList[i]
             entry == download[1][i]
             custom == NonBlank(chunk.customFields) IN
         /\ entry.id = chunk.id
         /\ entry.text = chunk.text
         /\ \A f \in STANDARD_META : Member(entry.metadata, f) = chunk.metadata[f]
         /\ \A k \in 1..Len(custom) :
              Member(entry.metadata, Trim(custom[k].key)) = custom[k].value
         /\ {entry.metadata[k].key : k \in 1..Len(entry.metadata)}
              = STANDARD_META \cup {Trim(custom[k].key) : k \in 1..Len(custom)}

\* the stable identifiers of all chunks the editor stores
StoredUids(d) ==
  UNION {UNION {{d.projects[p].categories[c].chunks[j]._uid :
                   j \in 1..Len(d.projects[p].categories[c].chunks)} :
                c \in 1..Len(d.projects[p].categories)} :
         p \in 1..Len(d.projects)}

KeysOf(pairs) == [k \in 1..Len(pairs) |-> pairs[k].key]

\* chunk is what record x becomes: the standard keys in the fixed fields
\* (empty when the record has none), every other key one custom field, in order
ChunkOfRecord(x, chunk) ==
  /\ chunk.id = x.id
  /\ chunk.text = x.text
  /\ \A f \in STANDARD_META :
       /\ Member(x.metadata, f).type = "string" => chunk.metadata[f] = Member(x.metadata, f)
       /\ Member(x.metadata, f) = JsUndefined => chunk.metadata[f] = JsString("")
  /\ KeysOf(chunk.customFields)
       = SelectSeq(KeysOf(x.metadata), LAMBDA key : key \notin STANDARD_META)
  /\ \A k \in 1..Len(chunk.customFields) :
       LET value == Member(x.metadata, chunk.customFields[k].key) IN
       /\ chunk.customFields[k].value.type = "string"
       /\ value.type = "string" => chunk.customFields[k].value = value

\* the stable identifiers of the chunks of the projects other than the current one
OtherUids ==
  StoredUids([data EXCEPT !.projects = SelectSeq(@, LAMBDA p : p.id # data.currentProjectId)])

\* C23: right after an import of n records the current project is a new one
\* whose single category holds exactly n chunks, the i-th made from the i-th
\* record; the chunks' stable identifiers are pairwise distinct and distinct
\* from those of every chunk stored before.
C23_ImportCreatesOneChunkPerRecord ==
  imported # None =>
    /\ EdCurrentIndex = Len(data.projects)
    /\ Len(EdCategories) = 1
    /\ Len(EdChunkList) = Len(imported[1])
    /\ \A i \in 1..Len(imported[1]) : ChunkOfRecord(imported[1][i], EdChunkList[i])
    /\ \A i, j \in 1..Len(EdChunkList) : EdChunkList[i]._uid = EdChunkList[j]._uid => i = j
    /\ \A i \in 1..Len(EdChunkList) : EdChunkList[i]._uid \notin OtherUids

C23_Witness ==
  /\ imported # None
  /\ Len(imported[1]) = 2
  /\ Len(data.projects) = 2
  /\ Len(EdChunkList) = 2
  /\ OtherUids # {}
  /\ EdChunkList[1].metadata.license = JsString("MIT")
  /\ KeysOf(EdChunkList[1].customFields) = <<"health">>
  /\ EdChunkList[1]._uid # EdChunkList[2]._uid

(***************************************************************************)
(* Properties of the store: deleted datasets                               *)
(***************************************************************************)
\* C25: only existing datasets have a commit log, so nothing of a deleted
\* dataset can be listed, fetched or rolled back to; the log of a dataset holds
\* exactly the commits of the mutations made since it was created: the first
\* is the commit of its creation and no other commit was made on a dataset
\* that did not exist.
C25_DeleteRemovesWholeLog ==
  /\ DOMAIN history = DOMAIN projects
  /\ \A p \in DOMAIN projects :
       /\ Len(List(p)) = count[p]
       /\ pre[List(p)[1].id].before = None
       /\ \A i \in 2..Len(List(p)) : pre[List(p)[i].id].before # None

\* C25 witness: the dataset was created, changed, deleted and created again,
\* and changed once since
C25_Witness ==
  /\ "d" \in DOMAIN projects
  /\ Len(List("d")) = 2
  /\ List("d")[1].id = 3
  /\ List("d")[1].action = "createProject"

(***************************************************************************)
(* Properties of the history view: order of the records, modified chunks   *)
(***************************************************************************)
StartsWith(text, prefix) == SubSeq(text, 1, Len(prefix)) = prefix

IsCategoryDeleted(r) == r.type = "deleted" /\ StartsWith(r.text, Txt.category)

IsCategoryAdded(r) == r.type = "added" /\ StartsWith(r.text, Txt.category)

IsRename(r) == r.type = "modified" /\ StartsWith(r.text, Txt.renamed)

IsMovedRecord(r) ==
  r.type = "modified" /\ StartsWith(r.text, Txt.chunk) /\ Includes(r.text, Txt.moved)

\* the place the claim gives a record: category deletions, category
\* additions, category renames, chunk records
StatedStage(r) ==
  CASE IsCategoryDeleted(r) -> 1
    [] IsCategoryAdded(r) -> 2
    [] IsRename(r) -> 3
    [] OTHER -> 4

\* C26 (as stated): in the diff of two snapshots all category deletions come
\* first, then all category additions, then all category renames, and only
\* then the chunk records; no rename record comes after a chunk record.
C26_RenamesBeforeChunkRecords ==
  (Computed /\ dPrev # None) =>
    \A i, j \in 1..Len(Result) :
      i < j => StatedStage(Result[i]) <= StatedStage(Result[j])

\* the place the code gives a record: category deletions, category
\* additions, the records of the categories of both snapshots, moves
Stage(r) ==
  CASE IsCategoryDeleted(r) -> 1
    [] IsCategoryAdded(r) -> 2
    [] IsMovedRecord(r) -> 4
    [] OTHER -> 3

\* record r is the rename of the k-th category of curr or is about one of its chunks
BelongsTo(r, prev, curr, k) ==
  LET cat == curr.categories[k] IN
  \/ /\ IsRename(r)
     /\ \E p \in 1..Len(prev.categories) :
          /\ prev.categories[p].id = cat.id
          /\ r.text = Txt.renamed \o Quoted(prev.categories[p].name) \o Txt.arrow
                        \o Quoted(cat.name)
  \/ /\ ~IsRename(r)
     /\ StartsWith(r.text, Txt.chunk)
     /\ \/ r.type = "deleted" /\ Includes(r.text, Txt.removedFrom \o Quoted(cat.name))
        \/ r.type = "added" /\ Includes(r.text, Txt.addedTo \o Quoted(cat.name))
        \/ r.type = "modified"
             /\ Includes(r.text, Txt.inside \o Quoted(cat.name) \o Txt.colon)

GroupsOf(r, prev, curr) == {k \in 1..Len(curr.categories) : BelongsTo(r, prev, curr, k)}

\* C26 (amended): category deletions come first, then category additions,
\* then the records of the categories that are in both snapshots, category by
\* category in the order of the current snapshot, the rename of a category
\* before the records of its chunks, and the moves last. (Checked on current
\* snapshots whose category names are distinct, which tell the categories
\* of the records apart.)
C26_OrderedCategoryByCategory ==
  (Computed /\ dPrev # None /\ DistinctNames(dCurr)) =>
    \A i, j \in 1..Len(Result) :
      i < j =>
        /\ Stage(Result[i]) <= Stage(Result[j])
        /\ (Stage(Result[i]) = 3 /\ Stage(Result[j]) = 3) =>
             /\ GroupsOf(Result[i], dPrev[1], dCurr) # {}
             /\ GroupsOf(Result[j], dPrev[1], dCurr) # {}
             /\ \A k \in GroupsOf(Result[i], dPrev[1], dCurr) :
                  \A l \in GroupsOf(Result[j], dPrev[1], dCurr) :
                    /\ k <= l
                    /\ IsRename(Result[j]) => k < l

\* C26 witness: a record of a chunk of the first category is followed by the
\* rename of the second category
C26_Witness ==
  /\ Computed
  /\ dPrev # None
  /\ DistinctNames(dCurr)
  /\ \E i, j \in 1..Len(Result) :
       /\ i < j
       /\ Stage(Result[i]) = 3
       /\ ~IsRename(Result[i])
       /\ IsRename(Result[j])
       /\ GroupsOf(Result[i], dPrev[1], dCurr) = {1}
       /\ GroupsOf(Result[j], dPrev[1], dCurr) = {2}

\* the stable identifiers that are in both snapshots under the same category
StayUids(prev, curr) ==
  {uid \in UidsOf(prev) \cap UidsOf(curr) :
     CategoryOf(prev, uid).id = CategoryOf(curr, uid).id}

\* the user-facing id, the text, a metadata field or a custom field differs
Differs(prevCh, currCh) ==
  \/ prevCh.id # currCh.id
  \/ prevCh.text # currCh.text
  \/ prevCh.metadata # currCh.metadata
  \/ prevCh.customFields # currCh.customFields

IsChunkModified(r) ==
  r.type = "modified" /\ StartsWith(r.text, Txt.chunk) /\ ~Includes(r.text, Txt.moved)

\* C27: between two snapshots in which no category was renamed and no chunk
\* changed its category, the diff has one modified record for every chunk that
\* is in the same category in both snapshots and whose id, text, metadata or
\* custom fields differ, naming the chunk and its category, and no modified
\* chunk record besides these.
C27_ChangedChunkIsOneModifiedRecord ==
  (/\ Computed
   /\ dPrev # None
   /\ NoRename(dPrev[1], dCurr)
   /\ MovedUids(dPrev[1], dCurr) = {}) =>
    LET changed == {uid \in StayUids(dPrev[1], dCurr) :
                      Differs(ChunkWith(dPrev[1], uid), ChunkWith(dCurr, uid))} IN
    /\ Cardinality({i \in 1..Len(Result) : IsChunkModified(Result[i])}) = Cardinality(changed)
    /\ \A uid \in changed :
         \E i \in 1..Len(Result) :
           /\ IsChunkModified(Result[i])
           /\ StartsWith(Result[i].text,
                         Txt.chunk \o Quoted(ChunkWith(dCurr, uid).id) \o Txt.inside
                           \o Quoted(CategoryOf(dCurr, uid).name) \o Txt.colon)

(***************************************************************************)
(* Properties of the session registry: membership                          *)
(***************************************************************************)
\* the sets of the registry that hold socket ws, as (code, role) pairs
SetsHolding(ws) ==
  {<<code, "browser">> : code \in {c \in DOMAIN sessions : ws \in Range(sessions[c].browsers)}}
  \cup {<<code, "mcp">> : code \in {c \in DOMAIN sessions : ws \in Range(sessions[c].mcpClients)}}

\* C28: the browsers and the MCP clients of a session are disjoint and hold
\* no socket twice; a socket that joined and has not closed is in exactly one
\* set, the one of its role in the session it joined; every other socket (one
\* whose close was handled, or one that was rejected) is in no set.
C28_MembersAreTheOpenHandles ==
  /\ \A code \in DOMAIN sessions :
       /\ Range(sessions[code].browsers) \cap Range(sessions[code].mcpClients) = {}
       /\ Cardinality(Range(sessions[code].browsers)) = Len(sessions[code].browsers)
       /\ Cardinality(Range(sessions[code].mcpClients)) = Len(sessions[code].mcpClients)
  /\ \A ws \in DOMAIN conns :
       SetsHolding(ws)
         = {<<conns[ws].sessionCode, IF conns[ws].clientType = "mcp" THEN "mcp" ELSE "browser">>}
  /\ \A ws \in (1..(nextWs - 1)) \ DOMAIN conns : SetsHolding(ws) = {}

\* C28 witness: the close of a member was handled and its session still has a
\* browser and an MCP client
C28_Witness ==
  /\ gwReq.route = "close"
  /\ gwReq.session \in DOMAIN sessions
  /\ sessions[gwReq.session].browsers # <<>>
  /\ sessions[gwReq.session].mcpClients # <<>>
  /\ Cardinality(DOMAIN conns) = 2
  /\ nextWs = 4

(***************************************************************************)
(* Properties of the browser editor: identifiers                           *)
(***************************************************************************)
CategoryIdList(project) == [c \in 1..Len(project.categories) |-> project.categories[c].id]

UidList(category) == [j \in 1..Len(category.chunks) |-> category.chunks[j]._uid]

NoRepeats(list) == Cardinality(Range(list)) = Len(list)

\* in every project the category ids are pairwise distinct and so are the
\* stable identifiers of all its chunks
IdentifiersDistinct ==
  \A p \in 1..Len(data.projects) :
    /\ NoRepeats(CategoryIdList(data.projects[p]))
    /\ NoRepeats(Flatten([c \in 1..Len(data.projects[p].categories) |->
                            UidList(data.projects[p].categories[c])]))

\* a step that neither adds nor removes a category leaves the category ids
\* as they were, and a step that neither adds nor removes a chunk of a
\* category leaves the stable identifiers of its chunks as they were
IdentifiersKept ==
  \A p \in 1..Len(data.projects) :
    LET before == data.projects[p]
        after == data'.projects[p] IN
    /\ Len(after.categories) = Len(before.categories) =>
         CategoryIdList(after) = CategoryIdList(before)
    /\ \A c \in 1..Len(before.categories) :
         \A d \in 1..Len(after.categories) :
           (/\ after.categories[d].id = before.categories[c].id
            /\ Len(after.categories[d].chunks) = Len(before.categories[c].chunks)) =>
             UidList(after.categories[d]) = UidList(before.categories[c])

\* C29: after any sequence of the editor's operations (add,
\* update, duplicate and delete of chunks, add and delete of categories,
\* import) the category ids of a project are pairwise distinct, the stable
\* identifiers of its chunks are pairwise distinct, and no operation changes
\* the identifier of a category or chunk that it keeps.
C29_IdentifiersUniqueAndStable == [](IdentifiersDistinct) /\ [][IdentifiersKept]_vars

\* C29 witness: an imported project next to a project made in the editor, a
\* chunk of which was duplicated and then saved with a new id
C29_Witness ==
  /\ Len(data.projects) = 2
  /\ \E p \in 1..2 :
       /\ Len(data.projects[p].categories) = 1
       /\ data.projects[p].categories[1].name = "Imported"
       /\ Len(data.projects[p].categories[1].chunks) = 3
       /\ data.projects[p].categories[1].chunks[3].id = "creeper_copy"
       /\ data.projects[p].categories[1].chunks[1].id = "creeper"
       /\ data.projects[p].categories[1].chunks[2].id = "creeper"

(***************************************************************************)
(* Properties of the browser client: reconnecting                          *)
(***************************************************************************)
\* C30: whenever the server's connection handler has run for a socket the
\* browser built to reconnect, the socket was accepted: the browser's socket
\* is open and among the browsers of the session with the browser's code, the
\* sockets that change events are written to.
C30_ReconnectIsAccepted ==
  [][(/\ client.status = "reconnecting"
      /\ gwReq'.route = "connection"
      /\ client' # client) =>
       /\ client'.status = "open"
       /\ client.sessionCode \in DOMAIN sessions'
       /\ client'.ws \in Range(sessions'[client.sessionCode].browsers)]_vars

(***************************************************************************)
(* Properties of the browser client: the MCP indicator                     *)
(***************************************************************************)
\* the MCP clients that are connected to the session of the browser
McpClientsOfBrowser ==
  IF client.sessionCode \in DOMAIN sessions
  THEN sessions[client.sessionCode].mcpClients ELSE <<>>

\* C31: whenever the browser is connected and has handled every event that was
\* written to its socket, _mcpConnected is true exactly when its session has
\* at least one connected MCP client
C31_IndicatorIsPresence ==
  (client.status = "open" /\ inbox = <<>>) =>
    (mcpConnected <=> McpClientsOfBrowser # <<>>)

(***************************************************************************)
(* Properties of the browser client: a save the server rejects             *)
(***************************************************************************)
\* Store.getChunk on a copy of the project: the chunk, or none
ChunkHeld(project, sel) ==
  IF project # None /\ HasChunk(project[1], sel.categoryId, sel.chunkUid)
  THEN LET cat == CatOf(project[1], sel.categoryId) IN
       Some(cat.chunks[ChunkIndex(cat, sel.chunkUid)])
  ELSE None

\* C32: when the server has rejected the updateChunk request of the browser,
\* the chunk in the browser's current project is the one it held before the
\* call
C32_RejectedSaveKeepsLocalChunk ==
  (saved # None /\ saved[1].status # "ok") =>
    ChunkHeld(current.project, saved[1].chunk) = ChunkHeld(saved[1].before, saved[1].chunk)

(***************************************************************************)
(* Properties of the browser client: the project it shows                  *)
(***************************************************************************)
\* the browser is connected, the last mutation wrote it an event, every event
\* written to its socket has been handled and every handler has ended
Settled ==
  /\ client.status = "open"
  /\ told
  /\ inbox = <<>>
  /\ tasks = <<>>

\* C33: once the change events have been handled and every fetch they started
\* has completed, with no mutation after the last event, the current project
\* of the browser is the server's live project of that name
C33_ViewerConverges ==
  (Settled /\ current.name \in DOMAIN projects) =>
    current.project = Some(projects[current.name])

(***************************************************************************)
(* Properties of the browser editor: the Delete Chunk modal                *)
(***************************************************************************)
\* C34: a click on Delete of the modal acts on the selection the modal was
\* opened for: the selection it reads is that one, never a cleared one
C34_ConfirmActsOnOpenedSelection ==
  modal.outcome # "none" => (modal.used # NoSelection /\ modal.used = modal.opened)

====
